---- MODULE Spec2Model ----
(***************************************************************************)
(* Model of the relay core of fvtt-mcp: the client registry               *)
(* (ClientManager, src/src/oAuth.ts), the Client wrapper                   *)
(* (src/src/core/Client.ts), the websocket admission and lifecycle        *)
(* (src/src/routes/websocket.ts) and the pending-request correlation       *)
(* (src/src/routes/route-helpers.ts, src/src/routes/api.ts).               *)
(***************************************************************************)
EXTENDS Integers, Sequences, FiniteSets, TLC

\* ------------------------------------------------------------------ bounds
MaxConn == 3
MaxRegConn == 2
MaxCallConn == 1
MaxCalls == 2
MaxClock == 2
MaxProbes == 2
MaxFrames == 2

\* ------------------------------------------------- program constants (ms)
DEFAULT_TIMEOUT == 10000
SWEEP_CEILING == 30000
SWEEP_INTERVAL == 10000
CLOSE_POLICY == 1008
CLOSE_DUPLICATE == 4004
\* one clock unit of the model, in milliseconds of Date.now()
TickMs == 2 * DEFAULT_TIMEOUT
\* a timeout a caller passes that is longer than the sweep ceiling
LONG_TIMEOUT == 4 * DEFAULT_TIMEOUT

\* ------------------------------------------------------------ value sets
Conns == 1..MaxConn
Calls == 1..MaxCalls
Ids == {"c1", "c2", "c3"}
API_KEY == "tok"
Tokens == {"tok", "alt"}
\* the undefined of Map.get: no Client is registered
NoConn == 0

\* ------------------------------------------------------------- map helpers
Put(m, k, v) == [x \in (DOMAIN m) \cup {k} |-> IF x = k THEN v ELSE m[x]]
Del(m, k) == [x \in (DOMAIN m) \ {k} |-> m[x]]
EmptyMap == [x \in {} |-> 0]

VARIABLES
  ws,               \* ws[c]: readyState of connection c ("idle" = not yet arrived)
  client,           \* client[c]: the Client object constructed for connection c
  routed,           \* routed[c]: wsRoutes registered its close/pong/error listeners
  pingTimer,        \* pingTimer[c]: the per-connection keepalive interval is armed
  clients,          \* ClientManager.clients: id -> connection of the Client (0 = absent)
  tokenGroups,      \* ClientManager.tokenGroups: token -> set of ids
  messageHandlers,  \* ClientManager.messageHandlers: type -> sequence of handlers
  pendingRequests,  \* shared pendingRequests: requestId -> entry
  call,             \* call[k]: one caller-side invocation and its outcome
  timers,           \* armed one-shot timeout timers
  now,              \* Date.now(), in clock units
  inbox,            \* inbox[c]: frames received on socket c, not yet handed to the listener
  last              \* observation of the step just taken

vars == <<ws, client, routed, pingTimer, clients, tokenGroups,
          messageHandlers, pendingRequests, call, timers, now, inbox, last>>

\* ------------------------------------------------------------------ Client
NoClient == [id |-> "", apiKey |-> "", connected |-> FALSE, lastSeen |-> 0, meta |-> 0]

\* new Client(ws, id, apiKey, ...)
NewClient(id, apiKey, meta, t) ==
  [id |-> id, apiKey |-> apiKey, connected |-> TRUE, lastSeen |-> t, meta |-> meta]

\* liveness read off the connected flag alone
isAliveFlagOnly(cl, readyState) == cl.connected

\* liveness that also asks for a sign of life within the last 40 seconds
isAliveRecentlySeen(cl, readyState) ==
  cl.connected /\ readyState = "open" /\ now - cl.lastSeen < LONG_TIMEOUT

\* Client.isAlive
isAlive(cl, readyState) == cl.connected /\ readyState = "open"

\* a sign of life that also marks the Client connected again
updateLastSeenRevives(cl, t) == [cl EXCEPT !.lastSeen = t, !.connected = TRUE]

\* Client.updateLastSeen
updateLastSeen(cl, t) == [cl EXCEPT !.lastSeen = t]

\* Client.disconnect: ws.close() if the Client is alive, then connected =
\* false; closeThrows is the outcome of ws.close() throwing (caught and
\* logged), which leaves readyState as it was
disconnect(cl, readyState, closeThrows) ==
  [cl |-> [cl EXCEPT !.connected = FALSE],
   readyState |-> IF cl.connected /\ readyState = "open" /\ ~closeThrows
                  THEN "closing" ELSE readyState]

\* Client.markDisconnected
markDisconnected(cl) == [cl EXCEPT !.connected = FALSE]

\* a send whose failed write leaves the Client marked connected
sendKeepsConnected(cl, readyState, writeFails) ==
  IF ~isAlive(cl, readyState) \/ writeFails
  THEN [cl |-> cl, ret |-> FALSE, wrote |-> FALSE]
  ELSE [cl |-> cl, ret |-> TRUE, wrote |-> TRUE]

\* Client.send: the new Client object and the returned boolean.
\* writeFails is the outcome of ws.send / JSON.stringify throwing.
send(cl, readyState, writeFails) ==
  IF ~isAlive(cl, readyState) THEN [cl |-> cl, ret |-> FALSE, wrote |-> FALSE]
  ELSE IF writeFails
       THEN [cl |-> [cl EXCEPT !.connected = FALSE], ret |-> FALSE, wrote |-> FALSE]
       ELSE [cl |-> cl, ret |-> TRUE, wrote |-> TRUE]

\* ----------------------------------------------------------- ClientManager
\* ClientManager.addClient on the registry maps; ok = a Client was returned
addClientDisplacing(cs, tg, c, id, token) ==
  LET tg0 == IF token \in DOMAIN tg THEN tg ELSE Put(tg, token, {})
  IN [clients |-> [cs EXCEPT ![id] = c],
      tokenGroups |-> [tg0 EXCEPT ![token] = @ \cup {id}],
      ok |-> TRUE]
addClient(cs, tg, c, id, token) ==
  IF cs[id] # NoConn
  THEN [clients |-> cs, tokenGroups |-> tg, ok |-> FALSE]
  ELSE LET tg0 == IF token \in DOMAIN tg THEN tg ELSE Put(tg, token, {})
       IN [clients |-> [cs EXCEPT ![id] = c],
           tokenGroups |-> [tg0 EXCEPT ![token] = @ \cup {id}],
           ok |-> TRUE]

\* ClientManager.removeClient on the registry maps; objs are the Client objects
removeClientKeepGroup(cs, tg, objs, id) ==
  IF cs[id] = NoConn THEN [clients |-> cs, tokenGroups |-> tg]
  ELSE [clients |-> [cs EXCEPT ![id] = NoConn], tokenGroups |-> tg]
\* a removal that drops the whole group of the removed Client's token
removeClientWholeGroup(cs, tg, objs, id) ==
  IF cs[id] = NoConn THEN [clients |-> cs, tokenGroups |-> tg]
  ELSE [clients |-> [cs EXCEPT ![id] = NoConn],
        tokenGroups |-> Del(tg, objs[cs[id]].apiKey)]
\* a removal that leaves the group entry in place when it becomes empty
removeClientNoPrune(cs, tg, objs, id) ==
  IF cs[id] = NoConn THEN [clients |-> cs, tokenGroups |-> tg]
  ELSE LET token == objs[cs[id]].apiKey
       IN [clients |-> [cs EXCEPT ![id] = NoConn],
           tokenGroups |-> IF token \in DOMAIN tg
                           THEN [tg EXCEPT ![token] = @ \ {id}] ELSE tg]
removeClient(cs, tg, objs, id) ==
  IF cs[id] = NoConn THEN [clients |-> cs, tokenGroups |-> tg]
  ELSE LET token == objs[cs[id]].apiKey
           tg1 == IF token \in DOMAIN tg
                  THEN [tg EXCEPT ![token] = @ \ {id}] ELSE tg
           tg2 == IF token \in DOMAIN tg1 /\ tg1[token] = {}
                  THEN Del(tg1, token) ELSE tg1
       IN [clients |-> [cs EXCEPT ![id] = NoConn], tokenGroups |-> tg2]

\* ClientManager.getClient: a direct lookup, absent stays absent
getClientAny(cs, id) ==
  IF cs[id] # NoConn THEN cs[id]
  ELSE IF \E i \in DOMAIN cs : cs[i] # NoConn
       THEN cs[CHOOSE i \in DOMAIN cs : cs[i] # NoConn] ELSE NoConn
getClient(cs, id) == cs[id]

\* ClientManager.broadcastToGroup: F is the set of connections whose write throws
broadcastTargets(cs, tg, objs, rs, senderId) ==
  IF cs[senderId] = NoConn THEN {}
  ELSE LET token == objs[cs[senderId]].apiKey
           groupClients == IF token \in DOMAIN tg THEN tg[token] ELSE {}
       IN {cs[id] : id \in {i \in groupClients :
                              /\ i # senderId
                              /\ cs[i] # NoConn
                              /\ isAlive(objs[cs[i]], rs[cs[i]])}}

broadcastStopAtFailure(cs, tg, objs, rs, senderId, F) ==
  LET T == broadcastTargets(cs, tg, objs, rs, senderId)
      stop == T \cap F # {}
  IN [objs |-> [c \in Conns |-> IF c \in T THEN send(objs[c], rs[c], c \in F).cl
                                ELSE objs[c]],
      wrote |-> IF stop THEN {} ELSE T]
broadcastToGroup(cs, tg, objs, rs, senderId, F) ==
  LET T == broadcastTargets(cs, tg, objs, rs, senderId)
  IN [objs |-> [c \in Conns |-> IF c \in T THEN send(objs[c], rs[c], c \in F).cl
                                ELSE objs[c]],
      wrote |-> {c \in T : send(objs[c], rs[c], c \in F).wrote}]

\* a lookup that returns the whole group, stale ids included
getConnectedClientsUnfiltered(cs, tg, objs, rs, apiKey) ==
  IF apiKey \in DOMAIN tg THEN tg[apiKey] ELSE {}

\* ClientManager.getConnectedClients(apiKey)
getConnectedClients(cs, tg, objs, rs, apiKey) ==
  {id \in (IF apiKey \in DOMAIN tg THEN tg[apiKey] ELSE {}) :
     cs[id] # NoConn /\ isAlive(objs[cs[id]], rs[cs[id]])}

\* ClientManager.onMessageType
onMessageType(mh, type, handler) ==
  IF type \in DOMAIN mh THEN [mh EXCEPT ![type] = Append(@, handler)]
  ELSE Put(mh, type, <<handler>>)

\* ---------------------------------------------------------- pending table
NoRid == <<"", 0>>
\* `${type}_${Date.now()}`
requestId(type, t) == <<type, t>>

PENDING_REQUEST_TYPES == {"rolls", "download-file"}
REQUEST_TYPES_WITH_SPECIAL_RESPONSE_HANDLERS == {"actor-sheet", "download-file"}
RequestTypes == PENDING_REQUEST_TYPES \cup {"notify"}
\* `${type}-result`
resultType(type) ==
  CASE type = "rolls" -> "rolls-result"
    [] type = "download-file" -> "download-file-result"
    [] type = "actor-sheet" -> "actor-sheet-result"
    [] OTHER -> "unknown-result"

Formats == {"binary", "json"}

\* call[k]: the position of the originating function (pc), its locals that
\* outlive a suspension (conn, timeout, rid), and what its caller observed
NoCallRec == [pc |-> "idle", shape |-> "promise", conn |-> NoConn, timeout |-> 0,
              rid |-> NoRid, outcome |-> "none", finals |-> 0, sent |-> FALSE,
              armed |-> FALSE]

\* resolve / reject of the promise created by sendClientRequest: the first
\* invocation settles the promise, every invocation is counted
settle(cr, outcome) ==
  [cr EXCEPT !.finals = @ + 1,
             !.outcome = IF @ = "none" THEN outcome ELSE @]

\* safeResponse(res, status, body): writes unless a response was already sent
safeResponse(cr, outcome) ==
  IF cr.outcome # "none" THEN cr
  ELSE [cr EXCEPT !.finals = @ + 1, !.outcome = outcome]

\* finalization of the waiter held by a pending entry
finalizeEntry(cl, p, isError) ==
  IF p.sink
  THEN [cl EXCEPT ![p.call] = safeResponse(@, IF isError THEN "remote-error" ELSE "result")]
  ELSE [cl EXCEPT ![p.call] = settle(@, IF isError THEN "remote-error" ELSE "result")]

\* the generic `${type}-result` handler registered by setupMessageHandlers
genericResultHandler(pend, cl, msg) ==
  IF msg.requestId # NoRid /\ msg.requestId \in DOMAIN pend
  THEN [pending |-> Del(pend, msg.requestId),
        call |-> finalizeEntry(cl, pend[msg.requestId], msg.error),
        threw |-> FALSE]
  ELSE [pending |-> pend, call |-> cl, threw |-> FALSE]

\* the "download-file-result" handler registered by setupMessageHandlers
downloadFileResultHandler(pend, cl, msg) ==
  IF msg.requestId # NoRid /\ msg.requestId \in DOMAIN pend
  THEN LET request == pend[msg.requestId]
           pend1 == Del(pend, msg.requestId)
       IN IF ~request.sink
          THEN [pending |-> pend1,
                call |-> finalizeEntry(cl, request, msg.error), threw |-> FALSE]
          ELSE IF msg.error
          THEN [pending |-> pend1,
                call |-> [cl EXCEPT ![request.call] = safeResponse(@, "remote-error")],
                threw |-> FALSE]
          ELSE IF ~msg.hasFile
          \* data.fileData.split(...) on a missing field throws
          THEN [pending |-> pend1, call |-> cl, threw |-> TRUE]
          ELSE IF request.format = "binary"
          \* res.setHeader after a response was sent throws
          THEN IF cl[request.call].outcome # "none"
               THEN [pending |-> pend1, call |-> cl, threw |-> TRUE]
               ELSE [pending |-> pend1,
                     call |-> [cl EXCEPT ![request.call] = safeResponse(@, "result")],
                     threw |-> FALSE]
          ELSE [pending |-> pend1,
                call |-> [cl EXCEPT ![request.call] = safeResponse(@, "result")],
                threw |-> FALSE]
  ELSE [pending |-> pend, call |-> cl, threw |-> FALSE]

\* one MessageHandler invocation; probeOk / probeThrow stand for handlers that
\* other callers of onMessageType register: one returns, one throws
execHandler(h, pend, cl, msg) ==
  CASE h = "generic" -> genericResultHandler(pend, cl, msg)
    [] h = "download" -> downloadFileResultHandler(pend, cl, msg)
    [] h = "probeThrow" -> [pending |-> pend, call |-> cl, threw |-> TRUE]
    [] OTHER -> [pending |-> pend, call |-> cl, threw |-> FALSE]

\* the handler loop of handleIncomingMessage: every handler runs inside its
\* own try/catch
RECURSIVE runHandlersAbortOnThrow(_, _, _, _, _)
runHandlersAbortOnThrow(hs, pend, cl, msg, acc) ==
  IF hs = <<>> THEN [pending |-> pend, call |-> cl, invoked |-> acc.invoked,
                     threw |-> acc.threw]
  ELSE LET r == execHandler(Head(hs), pend, cl, msg)
           acc1 == [invoked |-> Append(acc.invoked, Head(hs)),
                    threw |-> Append(acc.threw, r.threw)]
       IN IF r.threw
          THEN [pending |-> r.pending, call |-> r.call, invoked |-> acc1.invoked,
                threw |-> acc1.threw]
          ELSE runHandlersAbortOnThrow(Tail(hs), r.pending, r.call, msg, acc1)
RECURSIVE runHandlers(_, _, _, _, _)
runHandlers(hs, pend, cl, msg, acc) ==
  IF hs = <<>> THEN [pending |-> pend, call |-> cl, invoked |-> acc.invoked,
                     threw |-> acc.threw]
  ELSE LET r == execHandler(Head(hs), pend, cl, msg)
       IN runHandlers(Tail(hs), r.pending, r.call, msg,
                      [invoked |-> Append(acc.invoked, Head(hs)),
                       threw |-> Append(acc.threw, r.threw)])

\* ------------------------------------------------------ inbound messages
NoMsg == [type |-> "", requestId |-> NoRid, error |-> FALSE, hasFile |-> FALSE]
Pong == [type |-> "pong", requestId |-> NoRid, error |-> FALSE, hasFile |-> FALSE]

\* ClientManager.handleIncomingMessage(clientId, message)
handleIncomingMessageAlsoBroadcast(cs, tg, mh, objs, rs, pend, cl, clientId, msg, t, F) ==
  IF cs[clientId] = NoConn
  THEN [objs |-> objs, pending |-> pend, call |-> cl, wrote |-> {}, path |-> "none", payload |-> NoMsg,
        invoked |-> <<>>, threw |-> <<>>]
  ELSE LET d == cs[clientId]
           objs1 == [objs EXCEPT ![d] = updateLastSeen(@, t)]
       IN IF msg.type # "" /\ msg.type \in DOMAIN mh
          THEN LET r == runHandlers(mh[msg.type], pend, cl, msg,
                                    [invoked |-> <<>>, threw |-> <<>>])
                   b == broadcastToGroup(cs, tg, objs1, rs, clientId, F)
               IN [objs |-> b.objs, pending |-> r.pending, call |-> r.call,
                   wrote |-> b.wrote, path |-> "handlers", payload |-> msg,
                   invoked |-> r.invoked, threw |-> r.threw]
          ELSE LET b == broadcastToGroup(cs, tg, objs1, rs, clientId, F)
               IN [objs |-> b.objs, pending |-> pend, call |-> cl, wrote |-> b.wrote,
                   path |-> "broadcast", payload |-> msg, invoked |-> <<>>, threw |-> <<>>]
handleIncomingMessage(cs, tg, mh, objs, rs, pend, cl, clientId, msg, t, F) ==
  IF cs[clientId] = NoConn
  THEN [objs |-> objs, pending |-> pend, call |-> cl, wrote |-> {}, path |-> "none", payload |-> NoMsg,
        invoked |-> <<>>, threw |-> <<>>]
  ELSE LET d == cs[clientId]
           objs1 == [objs EXCEPT ![d] = updateLastSeen(@, t)]
       IN IF msg.type = "ping"
          THEN LET r == send(objs1[d], rs[d], d \in F)
               IN [objs |-> [objs1 EXCEPT ![d] = r.cl], pending |-> pend, call |-> cl,
                   wrote |-> IF r.wrote THEN {d} ELSE {}, path |-> "pong", payload |-> Pong,
                   invoked |-> <<>>, threw |-> <<>>]
          ELSE IF msg.type # "" /\ msg.type \in DOMAIN mh
          THEN LET r == runHandlers(mh[msg.type], pend, cl, msg,
                                    [invoked |-> <<>>, threw |-> <<>>])
               IN [objs |-> objs1, pending |-> r.pending, call |-> r.call,
                   wrote |-> {}, path |-> "handlers", payload |-> NoMsg,
                   invoked |-> r.invoked, threw |-> r.threw]
          ELSE LET b == broadcastToGroup(cs, tg, objs1, rs, clientId, F)
               IN [objs |-> b.objs, pending |-> pend, call |-> cl, wrote |-> b.wrote,
                   path |-> "broadcast", payload |-> msg, invoked |-> <<>>, threw |-> <<>>]

\* Client.handleMessage(data) for the Client of connection c
handleMessageNoPing(cs, tg, mh, objs, rs, pend, cl, c, msg, t, F) ==
  LET objs1 == [objs EXCEPT ![c] = updateLastSeen(@, t)]
  IN handleIncomingMessage(cs, tg, mh, objs1, rs, pend, cl, objs1[c].id, msg, t, F)
handleMessage(cs, tg, mh, objs, rs, pend, cl, c, msg, t, F) ==
  LET objs1 == [objs EXCEPT ![c] = updateLastSeen(@, t)]
  IN IF msg.type = "ping"
     THEN LET r == send(objs1[c], rs[c], c \in F)
          IN [objs |-> [objs1 EXCEPT ![c] = r.cl], pending |-> pend, call |-> cl,
              wrote |-> IF r.wrote THEN {c} ELSE {}, path |-> "pong", payload |-> Pong,
              invoked |-> <<>>, threw |-> <<>>]
     ELSE handleIncomingMessage(cs, tg, mh, objs1, rs, pend, cl, objs1[c].id, msg, t, F)

\* setupMessageHandlers: the registrations made once at startup
RECURSIVE registerGeneric(_, _)
registerGeneric(mh, types) ==
  IF types = {} THEN mh
  ELSE LET type == CHOOSE x \in types : TRUE
       IN registerGeneric(onMessageType(mh, resultType(type), "generic"), types \ {type})
\* a setup that skips the types with special handlers and registers none for them
setupMessageHandlersGenericOnly(mh) ==
  registerGeneric(mh, PENDING_REQUEST_TYPES \ REQUEST_TYPES_WITH_SPECIAL_RESPONSE_HANDLERS)
setupMessageHandlers(mh) ==
  onMessageType(
    registerGeneric(mh, PENDING_REQUEST_TYPES \ REQUEST_TYPES_WITH_SPECIAL_RESPONSE_HANDLERS),
    "download-file-result", "download")

\* ----------------------------------------------------------------- state
NoLast == [op |-> "init", conn |-> NoConn, id |-> "", k |-> 0, msg |-> NoMsg,
           ret |-> FALSE, wrote |-> {}, payload |-> NoMsg, failed |-> {}, path |-> "none",
           invoked |-> <<>>, threw |-> <<>>, code |-> 0, key |-> "", ids |-> {}, seq |-> 0]

\* the frames of one socket: those waiting in arrival order, how many have
\* arrived and the arrival number of the one handled last
NoFrames == [q |-> <<>>, n |-> 0, done |-> 0]

Init ==
  /\ ws = [c \in Conns |-> "idle"]
  /\ client = [c \in Conns |-> NoClient]
  /\ routed = [c \in Conns |-> FALSE]
  /\ pingTimer = [c \in Conns |-> FALSE]
  /\ clients = [i \in Ids |-> NoConn]
  /\ tokenGroups = EmptyMap
  /\ messageHandlers = setupMessageHandlers(EmptyMap)
  /\ pendingRequests = EmptyMap
  /\ call = [k \in Calls |-> NoCallRec]
  /\ timers = {}
  /\ now = 0
  /\ inbox = [c \in Conns |-> NoFrames]
  /\ last = NoLast

\* connections arrive in index order: c is the next unused connection object
NextConn(c) == ws[c] = "idle" /\ \A d \in Conns : d < c => ws[d] # "idle"

\* wsRoutes going on after addClient returned null: the listeners and the
\* keepalive timer are set up for a connection that was turned away
ConnectionNoReturn(c, id, token, meta) ==
  /\ NextConn(c)
  /\ UNCHANGED <<messageHandlers, inbox, pendingRequests, call, timers, now>>
  /\ IF id = "" \/ token = "" \/ API_KEY # token
     THEN /\ ws' = [ws EXCEPT ![c] = "closing"]
          /\ UNCHANGED <<client, routed, pingTimer, clients, tokenGroups>>
          /\ last' = [NoLast EXCEPT !.op = "connection", !.conn = c, !.id = id,
                                    !.ret = FALSE, !.code = CLOSE_POLICY,
                                    !.path = IF id = "" \/ token = ""
                                             THEN "missing" ELSE "badkey"]
     ELSE LET r == addClient(clients, tokenGroups, c, id, token)
          IN /\ ws' = [ws EXCEPT ![c] = IF r.ok THEN "open" ELSE "closing"]
             /\ client' = IF r.ok
                          THEN [client EXCEPT ![c] = NewClient(id, token, meta, now)]
                          ELSE client
             /\ routed' = [routed EXCEPT ![c] = TRUE]
             /\ pingTimer' = [pingTimer EXCEPT ![c] = TRUE]
             /\ clients' = r.clients
             /\ tokenGroups' = r.tokenGroups
             /\ last' = [NoLast EXCEPT !.op = "connection", !.conn = c, !.id = id,
                                       !.ret = r.ok,
                                       !.code = IF r.ok THEN 0 ELSE CLOSE_DUPLICATE,
                                       !.path = IF r.ok THEN "accepted"
                                                ELSE "duplicate"]

\* wsRoutes: wss.on("connection") with the url parameters id and token
Connection(c, id, token, meta) ==
  /\ NextConn(c)
  /\ UNCHANGED <<messageHandlers, inbox, pendingRequests, call, timers, now>>
  /\ IF id = "" \/ token = "" \/ API_KEY # token
     THEN /\ ws' = [ws EXCEPT ![c] = "closing"]
          /\ UNCHANGED <<client, routed, pingTimer, clients, tokenGroups>>
          /\ last' = [NoLast EXCEPT !.op = "connection", !.conn = c, !.id = id,
                                    !.ret = FALSE, !.code = CLOSE_POLICY,
                                    !.path = IF id = "" \/ token = ""
                                             THEN "missing" ELSE "badkey"]
     ELSE LET r == addClient(clients, tokenGroups, c, id, token)
          IN IF ~r.ok
             THEN /\ ws' = [ws EXCEPT ![c] = "closing"]
                  /\ UNCHANGED <<client, routed, pingTimer>>
                  /\ clients' = r.clients
                  /\ tokenGroups' = r.tokenGroups
                  /\ last' = [NoLast EXCEPT !.op = "connection", !.conn = c, !.id = id,
                                            !.ret = FALSE, !.code = CLOSE_DUPLICATE,
                                            !.path = "duplicate"]
             ELSE /\ ws' = [ws EXCEPT ![c] = "open"]
                  /\ client' = [client EXCEPT ![c] = NewClient(id, token, meta, now)]
                  /\ routed' = [routed EXCEPT ![c] = TRUE]
                  /\ pingTimer' = [pingTimer EXCEPT ![c] = TRUE]
                  /\ clients' = r.clients
                  /\ tokenGroups' = r.tokenGroups
                  /\ last' = [NoLast EXCEPT !.op = "connection", !.conn = c, !.id = id,
                                            !.ret = TRUE, !.path = "accepted"]

\* ClientManager.addClient called with an open socket by a caller other than
\* wsRoutes: no admission check, no wsRoutes listeners, no keepalive timer
AddClient(c, id, token, meta) ==
  /\ NextConn(c)
  /\ UNCHANGED <<messageHandlers, inbox, pendingRequests, call, timers, now, routed, pingTimer>>
  /\ LET r == addClient(clients, tokenGroups, c, id, token)
     IN /\ clients' = r.clients
        /\ tokenGroups' = r.tokenGroups
        /\ IF ~r.ok
           THEN /\ ws' = [ws EXCEPT ![c] = "closing"]
                /\ UNCHANGED client
                /\ last' = [NoLast EXCEPT !.op = "addClient", !.conn = c, !.id = id,
                                          !.ret = FALSE, !.code = CLOSE_DUPLICATE,
                                          !.path = "duplicate"]
           ELSE /\ ws' = [ws EXCEPT ![c] = "open"]
                /\ client' = [client EXCEPT ![c] = NewClient(id, token, meta, now)]
                /\ last' = [NoLast EXCEPT !.op = "addClient", !.conn = c, !.id = id,
                                          !.ret = TRUE, !.path = "accepted"]

\* ClientManager.removeClient called with an id, registered or not
RemoveClient(id) ==
  /\ LET r == removeClient(clients, tokenGroups, client, id)
     IN clients' = r.clients /\ tokenGroups' = r.tokenGroups
  /\ last' = [NoLast EXCEPT !.op = "removeClient", !.id = id,
                            !.ret = (clients[id] # NoConn)]
  /\ UNCHANGED <<ws, client, routed, pingTimer, messageHandlers, inbox,
                 pendingRequests, call, timers, now>>

\* the "close" event of connection c: the Client's listener (setupHandlers),
\* then the listener wsRoutes registered. A rejected connection has no
\* listener, so its close event runs no code. After the event nothing refers
\* to the Client object of c any more except a caller that captured it, for
\* which it stays not alive: the object is dropped from the state.
WsClose(c) ==
  /\ ws[c] \in {"open", "closing"}
  /\ client[c] # NoClient
  /\ ws' = [ws EXCEPT ![c] = "closed"]
  /\ UNCHANGED <<messageHandlers, inbox, pendingRequests, call, timers, now>>
  /\ LET objs1 == [client EXCEPT ![c].connected = FALSE]
         r1 == removeClient(clients, tokenGroups, objs1, client[c].id)
         r2 == IF routed[c]
               THEN removeClient(r1.clients, r1.tokenGroups, objs1, client[c].id)
               ELSE r1
     IN /\ client' = [objs1 EXCEPT ![c] = NoClient]
        /\ clients' = r2.clients
        /\ tokenGroups' = r2.tokenGroups
        /\ pingTimer' = IF routed[c] THEN [pingTimer EXCEPT ![c] = FALSE] ELSE pingTimer
        /\ routed' = [routed EXCEPT ![c] = FALSE]
        /\ last' = [NoLast EXCEPT !.op = "close", !.conn = c, !.id = client[c].id,
                                  !.path = IF routed[c] THEN "both listeners"
                                           ELSE "client listener"]

\* the "error" event of an accepted connection: the socket leaves the open
\* state and the listener wsRoutes registered runs
WsError(c) ==
  /\ ws[c] = "open"
  /\ routed[c]
  /\ ws' = [ws EXCEPT ![c] = "closing"]
  /\ pingTimer' = [pingTimer EXCEPT ![c] = FALSE]
  /\ LET r == removeClient(clients, tokenGroups, client, client[c].id)
     IN clients' = r.clients /\ tokenGroups' = r.tokenGroups
  /\ UNCHANGED <<client, routed, messageHandlers, inbox, pendingRequests, call,
                 timers, now>>
  /\ last' = [NoLast EXCEPT !.op = "error", !.conn = c, !.id = client[c].id]

\* the close handshake of an accepted connection begins (the peer sent a
\* close frame, or the server called close): readyState leaves OPEN, the
\* "close" event has not been emitted yet and no listener runs
WsClosing(c) ==
  /\ ws[c] = "open"
  /\ routed[c]
  /\ ws' = [ws EXCEPT ![c] = "closing"]
  /\ UNCHANGED <<client, routed, pingTimer, clients, tokenGroups, messageHandlers, inbox,
                 pendingRequests, call, timers, now>>
  /\ last' = [NoLast EXCEPT !.op = "closing", !.conn = c, !.id = client[c].id]

\* the callback of pingInterval: ws.ping only if readyState is OPEN
pingIntervalCallbackUnguarded(readyState) == TRUE
pingIntervalCallback(readyState) == readyState = "open"

\* one run of the setInterval callback wsRoutes armed for connection c
PingInterval(c) ==
  /\ pingTimer[c]
  /\ last' = [NoLast EXCEPT !.op = "keepalive", !.conn = c,
                            !.wrote = IF pingIntervalCallback(ws[c]) THEN {c} ELSE {},
                            !.payload = IF pingIntervalCallback(ws[c])
                                        THEN [NoMsg EXCEPT !.type = "keepalive"]
                                        ELSE NoMsg]
  /\ UNCHANGED <<ws, client, routed, pingTimer, clients, tokenGroups, messageHandlers,
                 inbox, pendingRequests, call, timers, now>>

\* Client.disconnect() called by a holder of the Client of connection c
Disconnect(c, closeThrows) ==
  /\ client[c] # NoClient
  /\ LET r == disconnect(client[c], ws[c], closeThrows)
     IN /\ client' = [client EXCEPT ![c] = r.cl]
        /\ ws' = [ws EXCEPT ![c] = r.readyState]
  /\ last' = [NoLast EXCEPT !.op = "disconnect", !.conn = c, !.id = client[c].id]
  /\ UNCHANGED <<routed, pingTimer, clients, tokenGroups, messageHandlers, inbox,
                 pendingRequests, call, timers, now>>

\* Client.markDisconnected() called by a holder of the Client of connection c
MarkDisconnected(c) ==
  /\ client[c] # NoClient
  /\ client' = [client EXCEPT ![c] = markDisconnected(@)]
  /\ last' = [NoLast EXCEPT !.op = "markDisconnected", !.conn = c, !.id = client[c].id]
  /\ UNCHANGED <<ws, routed, pingTimer, clients, tokenGroups, messageHandlers, inbox,
                 pendingRequests, call, timers, now>>

\* the "pong" listener of wsRoutes
WsPong(c) ==
  /\ ws[c] = "open"
  /\ routed[c]
  /\ client' = [client EXCEPT ![c] = updateLastSeen(@, now)]
  /\ UNCHANGED <<ws, routed, pingTimer, clients, tokenGroups, messageHandlers, inbox,
                 pendingRequests, call, timers, now>>
  /\ last' = [NoLast EXCEPT !.op = "pong", !.conn = c, !.id = client[c].id]

\* the "message" listener of the Client of connection c, for a frame that
\* decodes to msg; F: the connections on which a write throws
WsMessage(c, msg, F) ==
  /\ ws[c] = "open"
  /\ client[c] # NoClient
  /\ LET r == handleMessage(clients, tokenGroups, messageHandlers, client, ws,
                            pendingRequests, call, c, msg, now, F)
     IN /\ client' = r.objs
        /\ pendingRequests' = r.pending
        /\ call' = r.call
        /\ last' = [NoLast EXCEPT !.op = "message", !.conn = c, !.id = client[c].id,
                                  !.msg = msg, !.wrote = r.wrote, !.path = r.path,
                                  !.payload = r.payload,
                                  !.invoked = r.invoked, !.threw = r.threw,
                                  !.failed = {d \in Conns : client[d].connected
                                                            /\ ~r.objs[d].connected}]
  /\ UNCHANGED <<ws, routed, pingTimer, clients, tokenGroups, messageHandlers, inbox,
                 timers, now>>

\* a frame arrives on the open socket of an accepted connection
WsArrive(c, msg) ==
  /\ ws[c] = "open"
  /\ client[c] # NoClient
  /\ inbox[c].n < MaxFrames
  /\ inbox' = [inbox EXCEPT ![c] = [q |-> Append(@.q, [msg |-> msg, seq |-> @.n + 1]),
                                    n |-> @.n + 1, done |-> @.done]]
  /\ last' = [NoLast EXCEPT !.op = "arrive", !.conn = c, !.msg = msg, !.seq = inbox[c].n + 1]
  /\ UNCHANGED <<ws, client, routed, pingTimer, clients, tokenGroups, messageHandlers,
                 pendingRequests, call, timers, now>>

\* a socket hands its listener the newest frame first
nextFrameNewest(q) == q[Len(q)]

\* the frame the next "message" event of a socket carries: events are emitted
\* in the order the frames arrived
nextFrame(q) == Head(q)

\* the "message" listener of the Client of connection c run for the next
\* waiting frame, from JSON.parse to the last handler or send: the listener,
\* handleMessage, handleIncomingMessage, the handlers and broadcastToGroup
\* contain no await
WsDeliver(c, F) ==
  /\ ws[c] = "open"
  /\ client[c] # NoClient
  /\ inbox[c].q # <<>>
  /\ LET f == nextFrame(inbox[c].q)
         r == handleMessage(clients, tokenGroups, messageHandlers, client, ws,
                            pendingRequests, call, c, f.msg, now, F)
     IN /\ client' = r.objs
        /\ pendingRequests' = r.pending
        /\ call' = r.call
        /\ inbox' = [inbox EXCEPT ![c].q = SelectSeq(@, LAMBDA x : x.seq # f.seq),
                                  ![c].done = f.seq]
        /\ last' = [NoLast EXCEPT !.op = "message", !.conn = c, !.id = client[c].id,
                                  !.msg = f.msg, !.wrote = r.wrote, !.path = r.path,
                                  !.payload = r.payload, !.seq = f.seq,
                                  !.invoked = r.invoked, !.threw = r.threw,
                                  !.failed = {d \in Conns : client[d].connected
                                                            /\ ~r.objs[d].connected}]
  /\ UNCHANGED <<ws, routed, pingTimer, clients, tokenGroups, messageHandlers,
                 timers, now>>

\* a listener that gives up on the Client when a frame does not decode
WsBadFrameDisconnects(c) ==
  /\ ws[c] = "open"
  /\ client[c] # NoClient
  /\ client' = [client EXCEPT ![c].connected = FALSE]
  /\ last' = [NoLast EXCEPT !.op = "badframe", !.conn = c, !.id = client[c].id]
  /\ UNCHANGED <<ws, routed, pingTimer, clients, tokenGroups,
                 messageHandlers, inbox, pendingRequests, call, timers, now>>

\* the "message" listener for a frame JSON.parse rejects
WsBadFrame(c) ==
  /\ ws[c] = "open"
  /\ client[c] # NoClient
  /\ last' = [NoLast EXCEPT !.op = "badframe", !.conn = c, !.id = client[c].id]
  /\ UNCHANGED <<ws, client, routed, pingTimer, clients, tokenGroups,
                 messageHandlers, inbox, pendingRequests, call, timers, now>>

\* a call of ClientManager.getConnectedClients(apiKey)
GetConnectedClients(apiKey) ==
  /\ last' = [NoLast EXCEPT !.op = "getConnectedClients", !.key = apiKey,
                            !.ids = getConnectedClients(clients, tokenGroups, client,
                                                        ws, apiKey)]
  /\ UNCHANGED <<ws, client, routed, pingTimer, clients, tokenGroups,
                 messageHandlers, inbox, pendingRequests, call, timers, now>>

\* ClientManager.cleanupInactiveClients
RECURSIVE removeAll(_, _, _, _)
removeAll(cs, tg, objs, ids) ==
  IF ids = {} THEN [clients |-> cs, tokenGroups |-> tg]
  ELSE LET id == CHOOSE x \in ids : TRUE
           r == removeClient(cs, tg, objs, id)
       IN removeAll(r.clients, r.tokenGroups, objs, ids \ {id})
cleanupInactiveClientsOpenOnly(cs, tg, objs, rs) ==
  LET toRemove == {id \in Ids : cs[id] # NoConn /\ rs[cs[id]] # "open"}
  IN removeAll(cs, tg, objs, toRemove)
cleanupInactiveClientsEveryId(cs, tg, objs, rs) ==
  LET toRemove == {id \in Ids : cs[id] # NoConn}
  IN removeAll(cs, tg, objs, toRemove)
cleanupInactiveClients(cs, tg, objs, rs) ==
  LET toRemove == {id \in Ids : cs[id] # NoConn /\ ~isAlive(objs[cs[id]], rs[cs[id]])}
  IN removeAll(cs, tg, objs, toRemove)

CleanupInactiveClients ==
  /\ LET r == cleanupInactiveClients(clients, tokenGroups, client, ws)
     IN clients' = r.clients /\ tokenGroups' = r.tokenGroups
  /\ last' = [NoLast EXCEPT !.op = "cleanup"]
  /\ UNCHANGED <<ws, client, routed, pingTimer, messageHandlers, inbox,
                 pendingRequests, call, timers, now>>

\* ClientManager.onMessageType called by another subscriber
ProbeHandlers == {"probeOk", "probeThrow"}
NumProbes == Cardinality({<<t, i>> \in (DOMAIN messageHandlers) \X (1..(MaxProbes + 2)) :
                            /\ i <= Len(messageHandlers[t])
                            /\ messageHandlers[t][i] \in ProbeHandlers})
OnMessageType(type, handler) ==
  /\ NumProbes < MaxProbes
  /\ messageHandlers' = onMessageType(messageHandlers, type, handler)
  /\ last' = [NoLast EXCEPT !.op = "onMessageType"]
  /\ UNCHANGED <<ws, client, routed, pingTimer, clients, tokenGroups,
                 pendingRequests, call, timers, now, inbox>>

\* ------------------------------------------------------- dispatch glue
Timeouts == {DEFAULT_TIMEOUT, LONG_TIMEOUT}
NextCall(k) == call[k].pc = "idle" /\ \A j \in Calls : j < k => call[j].pc # "idle"

newEntry(type, clientId, t, k, sink, format) ==
  [type |-> type, clientId |-> clientId, timestamp |-> t, call |-> k,
   sink |-> sink, format |-> format]

\* a sendClientRequest that registers an entry and arms a timer for every type
sendClientRequestAlwaysRegisters(cs, objs, rs, pend, tms, cr, k, type, clientId, timeout, t, writeFails) ==
  IF getClient(cs, clientId) = NoConn
  THEN [objs |-> objs, pending |-> pend, timers |-> tms, sent |-> FALSE,
        call |-> [settle(cr, "unknown-client") EXCEPT
                    !.pc = "returned", !.shape = "promise"]]
  ELSE LET d == getClient(cs, clientId)
           rid == requestId(type, t)
           isPendingType == TRUE
           pend1 == IF isPendingType
                    THEN Put(pend, rid, newEntry(type, clientId, t, k, FALSE, "binary"))
                    ELSE pend
           r == send(objs[d], rs[d], writeFails)
           cr1 == [cr EXCEPT !.pc = "returned", !.shape = "promise",
                             !.rid = rid, !.sent = r.wrote]
       IN IF ~r.ret
          THEN [objs |-> [objs EXCEPT ![d] = r.cl],
                pending |-> IF isPendingType THEN Del(pend1, rid) ELSE pend1,
                timers |-> tms, sent |-> FALSE, call |-> settle(cr1, "send-failed")]
          ELSE IF ~isPendingType
          THEN [objs |-> objs, pending |-> pend1, timers |-> tms, sent |-> TRUE,
                call |-> settle(cr1, "success")]
          ELSE [objs |-> objs, pending |-> pend1, sent |-> TRUE,
                timers |-> tms \cup {[rid |-> rid, call |-> k, due |-> t + timeout,
                                      sink |-> FALSE]},
                call |-> [cr1 EXCEPT !.armed = TRUE]]

\* sendClientRequest({type, clientId, payload, timeout}), from the lookup to
\* the return of the promise executor; the await of getClient resumes in the
\* same turn of the event loop, before any socket event or timer
sendClientRequest(cs, objs, rs, pend, tms, cr, k, type, clientId, timeout, t, writeFails) ==
  IF getClient(cs, clientId) = NoConn
  THEN [objs |-> objs, pending |-> pend, timers |-> tms, sent |-> FALSE,
        call |-> [settle(cr, "unknown-client") EXCEPT
                    !.pc = "returned", !.shape = "promise"]]
  ELSE LET d == getClient(cs, clientId)
           rid == requestId(type, t)
           isPendingType == type \in PENDING_REQUEST_TYPES
           pend1 == IF isPendingType
                    THEN Put(pend, rid, newEntry(type, clientId, t, k, FALSE, "binary"))
                    ELSE pend
           r == send(objs[d], rs[d], writeFails)
           cr1 == [cr EXCEPT !.pc = "returned", !.shape = "promise",
                             !.rid = rid, !.sent = r.wrote]
       IN IF ~r.ret
          THEN [objs |-> [objs EXCEPT ![d] = r.cl],
                pending |-> IF isPendingType THEN Del(pend1, rid) ELSE pend1,
                timers |-> tms, sent |-> FALSE, call |-> settle(cr1, "send-failed")]
          ELSE IF ~isPendingType
          THEN [objs |-> objs, pending |-> pend1, timers |-> tms, sent |-> TRUE,
                call |-> settle(cr1, "success")]
          ELSE [objs |-> objs, pending |-> pend1, sent |-> TRUE,
                timers |-> tms \cup {[rid |-> rid, call |-> k, due |-> t + timeout,
                                      sink |-> FALSE]},
                call |-> [cr1 EXCEPT !.armed = TRUE]]

SendClientRequest(k, type, clientId, timeout, writeFails) ==
  /\ NextCall(k)
  /\ LET r == sendClientRequest(clients, client, ws, pendingRequests, timers, call[k],
                                k, type, clientId, timeout, now, writeFails)
     IN /\ client' = r.objs
        /\ pendingRequests' = r.pending
        /\ timers' = r.timers
        /\ call' = [call EXCEPT ![k] = r.call]
        /\ last' = [NoLast EXCEPT !.op = "sendClientRequest", !.k = k, !.id = clientId,
                                  !.conn = getClient(clients, clientId),
                                  !.ret = r.sent,
                                  !.wrote = IF r.sent THEN {getClient(clients, clientId)}
                                            ELSE {},
                                  !.path = r.call.outcome]
  /\ UNCHANGED <<ws, routed, pingTimer, clients, tokenGroups, messageHandlers, inbox, now>>

\* createApiRoute handler, from client.send to its return (lines 168-191)
apiRouteSend(objs, rs, pend, tms, cr, k, t, writeFails) ==
  LET d == cr.conn
      r == send(objs[d], rs[d], writeFails)
      cr1 == [cr EXCEPT !.pc = "returned", !.sent = r.wrote, !.conn = NoConn,
                        !.timeout = 0]
  IN IF ~r.ret
     THEN [objs |-> [objs EXCEPT ![d] = r.cl], pending |-> Del(pend, cr.rid),
           timers |-> tms, sent |-> FALSE, call |-> safeResponse(cr1, "send-failed")]
     ELSE [objs |-> objs, pending |-> pend, sent |-> TRUE,
           timers |-> tms \cup {[rid |-> cr.rid, call |-> k, due |-> t + cr.timeout,
                                 sink |-> TRUE]},
           call |-> [cr1 EXCEPT !.armed = TRUE]]

\* createApiRoute handler, from its entry to the await of buildPayload
\* (lines 54-165); build = "none" is a route without an asynchronous buildPayload
ApiRouteBegin(k, type, clientId, timeout, format, valid, build, writeFails) ==
  /\ NextCall(k)
  /\ UNCHANGED <<ws, routed, pingTimer, clients, tokenGroups, messageHandlers, inbox, now>>
  /\ LET cr0 == [call[k] EXCEPT !.shape = "sink"]
     IN IF ~valid
        THEN /\ call' = [call EXCEPT ![k] = [safeResponse(cr0, "validation")
                                               EXCEPT !.pc = "returned"]]
             /\ UNCHANGED <<client, pendingRequests, timers>>
             /\ last' = [NoLast EXCEPT !.op = "apiRoute", !.k = k, !.id = clientId,
                                       !.path = "validation"]
        ELSE IF getClient(clients, clientId) = NoConn
        THEN /\ call' = [call EXCEPT ![k] = [safeResponse(cr0, "unknown-client")
                                               EXCEPT !.pc = "returned"]]
             /\ UNCHANGED <<client, pendingRequests, timers>>
             /\ last' = [NoLast EXCEPT !.op = "apiRoute", !.k = k, !.id = clientId,
                                       !.path = "unknown-client"]
        ELSE LET rid == requestId(type, now)
                 cr1 == [cr0 EXCEPT !.conn = getClient(clients, clientId), !.rid = rid,
                                    !.timeout = timeout]
                 pend1 == Put(pendingRequests, rid,
                              newEntry(type, clientId, now, k, TRUE, format))
             IN IF build = "async"
                THEN /\ call' = [call EXCEPT ![k] = [cr1 EXCEPT !.pc = "building"]]
                     /\ pendingRequests' = pend1
                     /\ UNCHANGED <<client, timers>>
                     /\ last' = [NoLast EXCEPT !.op = "apiRoute", !.k = k,
                                               !.id = clientId, !.path = "building"]
                ELSE LET r == apiRouteSend(client, ws, pend1, timers, cr1, k, now,
                                           writeFails)
                     IN /\ client' = r.objs
                        /\ pendingRequests' = r.pending
                        /\ timers' = r.timers
                        /\ call' = [call EXCEPT ![k] = r.call]
                        /\ last' = [NoLast EXCEPT !.op = "apiRoute", !.k = k,
                                       !.id = clientId, !.conn = cr1.conn,
                                       !.ret = r.sent,
                                       !.wrote = IF r.sent THEN {cr1.conn} ELSE {},
                                       !.path = IF r.sent THEN "armed" ELSE "send-failed"]

\* createApiRoute handler resumed after the await of buildPayload, which
\* either returned the payload or threw (catch block, lines 192-195)
ApiRouteResume(k, buildThrows, writeFails) ==
  /\ call[k].pc = "building"
  /\ UNCHANGED <<ws, routed, pingTimer, clients, tokenGroups, messageHandlers, inbox, now>>
  /\ IF buildThrows
     THEN /\ call' = [call EXCEPT ![k] = [safeResponse(@, "internal-error")
                                            EXCEPT !.pc = "returned", !.conn = NoConn,
                                                   !.timeout = 0]]
          /\ UNCHANGED <<client, pendingRequests, timers>>
          /\ last' = [NoLast EXCEPT !.op = "apiRouteResume", !.k = k,
                                    !.path = "internal-error"]
     ELSE LET r == apiRouteSend(client, ws, pendingRequests, timers, call[k], k, now,
                                writeFails)
          IN /\ client' = r.objs
             /\ pendingRequests' = r.pending
             /\ timers' = r.timers
             /\ call' = [call EXCEPT ![k] = r.call]
             /\ last' = [NoLast EXCEPT !.op = "apiRouteResume", !.k = k,
                                       !.conn = call[k].conn,
                                       !.ret = r.sent,
                                       !.wrote = IF r.sent THEN {call[k].conn} ELSE {},
                                       !.path = IF r.sent THEN "armed" ELSE "send-failed"]

\* the setTimeout callbacks of sendClientRequest (lines 261-266) and of
\* createApiRoute (lines 186-191)
timeoutCallback(pend, cl, tm) ==
  IF tm.rid \notin DOMAIN pend
  THEN [pending |-> pend, call |-> cl, found |-> FALSE]
  ELSE IF tm.sink
  THEN [pending |-> Del(pend, tm.rid),
        call |-> [cl EXCEPT ![tm.call] = safeResponse(@, "timed-out")],
        found |-> TRUE]
  ELSE LET p == pend[tm.rid]
       IN [pending |-> Del(pend, tm.rid),
           \* pendingRequests.get(requestId)?.reject?.(...): the reject of the
           \* entry now stored under the id; a sink-bound entry has none
           call |-> IF p.sink THEN cl
                    ELSE [cl EXCEPT ![p.call] = settle(@, "timed-out")],
           found |-> TRUE]

TimerFire(tm) ==
  /\ tm \in timers
  /\ now >= tm.due
  /\ timers' = timers \ {tm}
  /\ LET r == timeoutCallback(pendingRequests, call, tm)
     IN /\ pendingRequests' = r.pending
        /\ call' = r.call
        /\ last' = [NoLast EXCEPT !.op = "timer", !.k = tm.call, !.ret = r.found]
  /\ UNCHANGED <<ws, client, routed, pingTimer, clients, tokenGroups,
                 messageHandlers, inbox, now>>

\* the setInterval callback of setupMessageHandlers (lines 208-217)
sweepLateCeiling(pend, t) ==
  [rid \in {x \in DOMAIN pend :
              ~(t - pend[x].timestamp > SWEEP_CEILING + DEFAULT_TIMEOUT)} |-> pend[rid]]
sweep(pend, t) ==
  [rid \in {x \in DOMAIN pend : ~(t - pend[x].timestamp > SWEEP_CEILING)} |-> pend[rid]]

Sweep ==
  /\ pendingRequests' = sweep(pendingRequests, now)
  /\ last' = [NoLast EXCEPT !.op = "sweep"]
  /\ UNCHANGED <<ws, client, routed, pingTimer, clients, tokenGroups,
                 messageHandlers, inbox, call, timers, now>>

\* the same callback on its schedule: the clock advances by one interval, no
\* due timeout is passed over, and the sweep runs at the new time
SweepInterval ==
  /\ now + SWEEP_INTERVAL <= (MaxClock + 1) * TickMs
  /\ \A tm \in timers : tm.due > now
  /\ now' = now + SWEEP_INTERVAL
  /\ pendingRequests' = sweep(pendingRequests, now')
  /\ last' = [NoLast EXCEPT !.op = "interval"]
  /\ UNCHANGED <<ws, client, routed, pingTimer, clients, tokenGroups,
                 messageHandlers, inbox, call, timers>>

\* Date.now() advances; the event loop runs a timer that is due before time
\* moves on
Tick ==
  /\ now < MaxClock * TickMs
  /\ \A tm \in timers : tm.due > now
  /\ now' = now + TickMs
  /\ last' = [NoLast EXCEPT !.op = "tick"]
  /\ UNCHANGED <<ws, client, routed, pingTimer, clients, tokenGroups,
                 messageHandlers, inbox, pendingRequests, call, timers>>

\* ------------------------------------------------------------ environment
KnownRids == {call[k].rid : k \in Calls} \ {NoRid}
ProbeTypes == {"rolls-result"}
\* result messages: the error and fileData fields are told apart only for a
\* request id the table holds, where the handlers read them
FieldsOf(r) == IF r \in DOMAIN pendingRequests THEN BOOLEAN ELSE {FALSE}
ResultMsgs ==
  {[type |-> "rolls-result", requestId |-> r, error |-> e, hasFile |-> FALSE] :
     r \in KnownRids, e \in BOOLEAN}
  \cup {[type |-> "download-file-result", requestId |-> r, error |-> e, hasFile |-> f] :
          r \in KnownRids, e \in BOOLEAN, f \in BOOLEAN}
LiveResultMsgs == {m \in ResultMsgs : m.error \in FieldsOf(m.requestId)
                                      /\ m.hasFile \in FieldsOf(m.requestId)}
RegistryIds == {"c1", "c2"}
RoutingMsgs == {[NoMsg EXCEPT !.type = t] : t \in {"ping", "chat", "", "rolls-result"}}
RegistryMsgs == {[NoMsg EXCEPT !.type = t] : t \in {"ping", "chat"}}
\* the connections a message from c may be written to, and the outcomes of
\* those writes that are told apart: none throws, or one of them throws
WriteTargets(c, msg) ==
  IF client[c] = NoClient THEN {}
  ELSE IF msg.type = "ping" THEN {c}
  ELSE IF msg.type # "" /\ msg.type \in DOMAIN messageHandlers THEN {}
  ELSE broadcastTargets(clients, tokenGroups, client, ws, client[c].id)
FailSets(c, msg) == {{}} \cup {{d} : d \in WriteTargets(c, msg)}

\* ids are interchangeable: the c-th connection presents one of the first c ids
IdSeq == <<"c1", "c2", "c3">>
FreshIds(c) == {IdSeq[j] : j \in {x \in 1..Len(IdSeq) : x <= c}}
\* tokens are interchangeable for addClient: the first one presented is "tok"
FreshTokens == IF \A d \in Conns : ws[d] = "idle" THEN {"tok"} ELSE Tokens

\* the registry: admission, lifecycle, liveness and the sweep of dead clients
NextRegistry ==
  \/ \E c \in 1..MaxRegConn : \E id \in (FreshIds(c) \cap RegistryIds) \cup {""},
                                 token \in Tokens \cup {""} :
       Connection(c, id, token, c)
  \/ \E c \in 1..MaxRegConn : \E id \in FreshIds(c) \cap RegistryIds, token \in Tokens :
       AddClient(c, id, token, c)
  \/ \E c \in Conns : WsClose(c)
  \/ \E c \in Conns : WsError(c)
  \/ \E c \in Conns, msg \in RegistryMsgs : \E F \in FailSets(c, msg) : WsMessage(c, msg, F)
  \/ CleanupInactiveClients
  \/ \E id \in RegistryIds, wf \in BOOLEAN :
       SendClientRequest(1, "rolls", id, DEFAULT_TIMEOUT, wf)

SpecRegistry == Init /\ [][NextRegistry]_vars

\* accepted clients that fall silent while the clock advances: keepalive
\* pongs, pings, failed writes, close and error events, and the sweep
NextLiveness ==
  \/ \E c \in 1..MaxRegConn : \E id \in FreshIds(c) \cap RegistryIds :
       Connection(c, id, API_KEY, c)
  \/ \E c \in Conns : WsPong(c)
  \/ \E c \in Conns : WsClose(c)
  \/ \E c \in Conns : WsError(c)
  \/ \E c \in Conns : \E F \in FailSets(c, [NoMsg EXCEPT !.type = "ping"]) :
       WsMessage(c, [NoMsg EXCEPT !.type = "ping"], F)
  \/ CleanupInactiveClients
  \/ Tick

SpecLiveness == Init /\ [][NextLiveness]_vars

\* the registry with removeClient also called on its own
NextRemove ==
  \/ NextRegistry
  \/ \E id \in RegistryIds : RemoveClient(id)

SpecRemove == Init /\ [][NextRemove]_vars

\* the registry with callers that ask for the connected clients of a group
NextQuery ==
  \/ NextRegistry
  \/ \E g \in Tokens : GetConnectedClients(g)

SpecQuery == Init /\ [][NextQuery]_vars

\* the registry with subscribers that register handlers for the reserved type
NextProbe ==
  \/ NextRegistry
  \/ \E h \in ProbeHandlers : OnMessageType("ping", h)

SpecProbe == Init /\ [][NextProbe]_vars

\* routing of inbound messages: handlers, probes and the group broadcast
NextRouting ==
  \/ \E c \in Conns : \E id \in FreshIds(c), token \in FreshTokens :
       AddClient(c, id, token, c)
  \/ \E c \in Conns : WsClose(c)
  \/ \E c \in Conns, msg \in RoutingMsgs : \E F \in FailSets(c, msg) : WsMessage(c, msg, F)
  \/ \E t \in ProbeTypes, h \in ProbeHandlers : OnMessageType(t, h)

SpecRouting == Init /\ [][NextRouting]_vars

\* the dispatch glue and the pending table: one client connection, calls,
\* result messages, timers, the periodic sweep and the clock
CallIds == {"c1"}
\* the ids calls are addressed to: the one that connects and one that never does
CallTargets == {"c1", "c2"}
FormatsOf(type) == IF type = "download-file" THEN Formats ELSE {"binary"}
NextPending ==
  \/ \E c \in 1..MaxCallConn : \E id \in FreshIds(c) \cap CallIds :
       Connection(c, id, API_KEY, c)
  \/ \E c \in Conns : WsClose(c)
  \/ \E c \in Conns, msg \in LiveResultMsgs : WsMessage(c, msg, {})
  \/ \E tm \in timers : TimerFire(tm)
  \/ Sweep
  \/ Tick

\* callers of sendClientRequest (promise-bound entries)
NextPromise ==
  \/ NextPending
  \/ \E k \in Calls, type \in RequestTypes, id \in CallTargets, timeout \in Timeouts,
        wf \in BOOLEAN : SendClientRequest(k, type, id, timeout, wf)

SpecPromise == Init /\ [][NextPromise]_vars

\* the same callers under the scheduling of the event loop: the clock
\* advances and a due timer runs; a call is issued only while its timer can
\* still come due within the clock bound
NextSettle ==
  \/ NextPending
  \/ \E k \in Calls, type \in RequestTypes, id \in CallTargets, timeout \in Timeouts,
        wf \in BOOLEAN :
       /\ now + timeout <= MaxClock * TickMs
       /\ SendClientRequest(k, type, id, timeout, wf)

FairSettle ==
  /\ Init
  /\ [][NextSettle]_vars
  /\ WF_vars(Tick)
  /\ WF_vars(\E tm \in timers : TimerFire(tm))

\* the same, with the error event and the sweep of dead clients, the other
\* two ways a Client leaves the registry
NextRemoval ==
  \/ NextSettle
  \/ \E c \in Conns : WsError(c)
  \/ CleanupInactiveClients

FairRemoval ==
  /\ Init
  /\ [][NextRemoval]_vars
  /\ WF_vars(Tick)
  /\ WF_vars(\E tm \in timers : TimerFire(tm))

\* late and stray result messages: two clients of one group, calls to the
\* first, result messages with a request id the table holds, held once, or
\* without a request id, and the timers that expire the entries
StrayMsgs ==
  LiveResultMsgs
    \cup {[NoMsg EXCEPT !.type = t] : t \in {"rolls-result", "download-file-result"}}
NextStray ==
  \/ \E c \in 1..MaxRegConn : \E id \in FreshIds(c) \cap RegistryIds :
       Connection(c, id, API_KEY, c)
  \/ \E k \in Calls, type \in PENDING_REQUEST_TYPES :
       SendClientRequest(k, type, "c1", DEFAULT_TIMEOUT, FALSE)
  \/ \E c \in Conns, msg \in StrayMsgs : WsMessage(c, msg, {})
  \/ \E tm \in timers : TimerFire(tm)
  \/ Tick

SpecStray == Init /\ [][NextStray]_vars

\* the pending table under the sweep schedule: entries with a timer of
\* either length, entries left without a timer by a route whose buildPayload
\* throws, and the interval callback every 10 s
NextSweep ==
  \/ \E c \in 1..MaxCallConn : \E id \in FreshIds(c) \cap CallIds :
       Connection(c, id, API_KEY, c)
  \/ \E k \in Calls, timeout \in Timeouts :
       SendClientRequest(k, "rolls", "c1", timeout, FALSE)
  \/ \E k \in Calls :
       ApiRouteBegin(k, "rolls", "c1", DEFAULT_TIMEOUT, "binary", TRUE, "async", FALSE)
  \/ \E k \in Calls, bt \in BOOLEAN : ApiRouteResume(k, bt, FALSE)
  \/ \E tm \in timers : TimerFire(tm)
  \/ SweepInterval

SpecSweep == Init /\ [][NextSweep]_vars

\* frames queued on the sockets of two clients of one group and handed to
\* the listeners one at a time, with frames that do not decode
NextOrder ==
  \/ \E c \in 1..MaxRegConn : \E id \in FreshIds(c) \cap RegistryIds :
       Connection(c, id, API_KEY, c)
  \/ \E c \in Conns, msg \in RoutingMsgs : WsArrive(c, msg)
  \/ \E c \in Conns : WsDeliver(c, {})
  \/ \E c \in Conns : WsBadFrame(c)
  \/ \E c \in Conns : PingInterval(c)
  \/ \E c \in Conns : WsClosing(c)
  \/ \E c \in Conns : WsClose(c)

SpecOrder == Init /\ [][NextOrder]_vars

\* routes built by createApiRoute (sink-bound entries)
NextSink ==
  \/ NextPending
  \/ \E k \in Calls, type \in PENDING_REQUEST_TYPES, id \in CallTargets,
        valid \in BOOLEAN, build \in {"none", "async"}, wf \in BOOLEAN :
       \E format \in FormatsOf(type) :
         ApiRouteBegin(k, type, id, DEFAULT_TIMEOUT, format, valid, build, wf)
  \/ \E k \in Calls, bt \in BOOLEAN, wf \in BOOLEAN : ApiRouteResume(k, bt, wf)

SpecSink == Init /\ [][NextSink]_vars

\* the same routes under the scheduling of the event loop: the clock
\* advances, a due timer runs, and a suspended handler is resumed when
\* buildPayload settles
FairSink ==
  /\ Init
  /\ [][NextSink]_vars
  /\ WF_vars(Tick)
  /\ WF_vars(\E tm \in timers : TimerFire(tm))
  /\ WF_vars(\E k \in Calls, bt \in BOOLEAN, wf \in BOOLEAN : ApiRouteResume(k, bt, wf))

\* both call shapes side by side, each with its default timeout
NextCalls ==
  \/ NextPending
  \/ \E k \in Calls, type \in RequestTypes, id \in CallTargets, wf \in BOOLEAN :
       SendClientRequest(k, type, id, DEFAULT_TIMEOUT, wf)
  \/ \E k \in Calls, type \in PENDING_REQUEST_TYPES, id \in CallTargets, wf \in BOOLEAN :
       ApiRouteBegin(k, type, id, DEFAULT_TIMEOUT, "binary", TRUE, "none", wf)

SpecCalls == Init /\ [][NextCalls]_vars

\* the keepalive timer of each accepted connection with the events that end
\* the connection
NextKeepalive ==
  \/ \E c \in 1..MaxRegConn : \E id \in (FreshIds(c) \cap RegistryIds) \cup {""},
                                 token \in Tokens :
       Connection(c, id, token, c)
  \/ \E c \in Conns : PingInterval(c)
  \/ \E c \in Conns : WsPong(c)
  \/ \E c \in Conns : WsClosing(c)
  \/ \E c \in Conns : WsClose(c)
  \/ \E c \in Conns : WsError(c)
  \/ CleanupInactiveClients
  \/ Tick

SpecKeepalive == Init /\ [][NextKeepalive]_vars

\* the life of a Client object: every way it stops being alive, and the
\* pongs, messages and sends that reach it afterwards
NextMonotone ==
  \/ \E c \in 1..MaxRegConn : \E id \in FreshIds(c) \cap RegistryIds :
       Connection(c, id, API_KEY, c)
  \/ \E c \in Conns, ct \in BOOLEAN : Disconnect(c, ct)
  \/ \E c \in Conns : MarkDisconnected(c)
  \/ \E c \in Conns : WsPong(c)
  \/ \E c \in Conns : PingInterval(c)
  \/ \E c \in Conns : WsClosing(c)
  \/ \E c \in Conns : WsClose(c)
  \/ \E c \in Conns : WsError(c)
  \/ \E c \in Conns, msg \in RegistryMsgs : \E F \in FailSets(c, msg) : WsMessage(c, msg, F)
  \/ \E id \in RegistryIds, wf \in BOOLEAN :
       SendClientRequest(1, "rolls", id, DEFAULT_TIMEOUT, wf)
  \/ Tick

SpecMonotone == Init /\ [][NextMonotone]_vars

Next ==
  \/ NextRegistry
  \/ NextRouting
  \/ NextPromise
  \/ NextSink
  \/ \E c \in Conns : WsPong(c)
  \/ \E c \in Conns : WsBadFrame(c)
  \/ NextKeepalive
  \/ NextMonotone

Spec == Init /\ [][Next]_vars

\* ------------------------------------------------------------------ claims
\* the Client registered under id, and whether id is registered
Registered(id) == clients[id] # NoConn
ClientOf(id) == client[clients[id]]

\* C1: after every sequence of addClient (accepted or rejected), removeClient
\* and cleanupInactiveClients, tokenGroups[g] contains an id exactly when
\* clients holds a Client under that id whose apiKey is g: no group names an
\* id that is not registered, and no registered id is missing from its group
C1_GroupsAgreeWithClients ==
  /\ \A g \in DOMAIN tokenGroups : \A id \in tokenGroups[g] :
       id \in Ids /\ Registered(id) /\ ClientOf(id).apiKey = g
  /\ \A id \in Ids : Registered(id) =>
       /\ ClientOf(id).apiKey \in DOMAIN tokenGroups
       /\ id \in tokenGroups[ClientOf(id).apiKey]

\* C1 witness: a cleanup has just removed a client whose socket is still open
\* while another client stays registered in a group
C1_Witness ==
  /\ last.op = "cleanup"
  /\ \E c \in Conns : /\ ws[c] = "open"
                      /\ client[c] # NoClient
                      /\ clients[client[c].id] # c
  /\ \E g \in DOMAIN tokenGroups : tokenGroups[g] # {}

\* C2: addClient with an id that is already registered returns no Client and
\* closes only the new socket with code 4004; the registered Client, its
\* socket, its group membership and the pending requests stay as they were
C2_DuplicateRejected ==
  [][\A id \in Ids :
       (/\ last'.op \in {"connection", "addClient"}
        /\ last'.id = id
        /\ last'.path \notin {"missing", "badkey"}
        /\ Registered(id))
       => /\ last'.ret = FALSE
          /\ last'.code = CLOSE_DUPLICATE
          /\ ws'[last'.conn] = "closing"
          /\ client'[last'.conn] = NoClient
          /\ clients' = clients
          /\ tokenGroups' = tokenGroups
          /\ ClientOf(id)' = ClientOf(id)
          /\ ws'[clients[id]] = ws[clients[id]]
          /\ \A d \in Conns \ {last'.conn} : ws'[d] = ws[d] /\ client'[d] = client[d]
          /\ pendingRequests' = pendingRequests
          /\ call' = call
          /\ timers' = timers]_vars

\* C2 witness: a duplicate was just turned away while the registered Client
\* has a request outstanding
C2_Witness ==
  /\ last.op \in {"connection", "addClient"}
  /\ last.path = "duplicate"
  /\ Registered(last.id)
  /\ clients[last.id] # last.conn
  /\ ws[clients[last.id]] = "open"
  /\ \E r \in DOMAIN pendingRequests : pendingRequests[r].clientId = last.id

\* the connections broadcastToGroup must reach for a sender registered as
\* sid: the Clients registered in the sender's token group, other than the
\* sender, that are alive
GroupPeers(sid) ==
  {d \in Conns : /\ client[d] # NoClient
                 /\ clients[client[d].id] = d
                 /\ client[d].id # sid
                 /\ client[d].apiKey = ClientOf(sid).apiKey
                 /\ client[d].connected
                 /\ ws[d] = "open"}

\* C8: a broadcast from a registered sender is written to every other alive
\* member of the sender's token group and to nobody else, never to the sender
\* and never to a member of another group; a recipient whose write throws is
\* marked disconnected and the remaining recipients are still written to
C8_BroadcastReachesGroup ==
  [][(last'.op = "message" /\ last'.path = "broadcast")
       => /\ Registered(last'.id)
          /\ last'.failed \subseteq GroupPeers(last'.id)
          /\ last'.wrote = GroupPeers(last'.id) \ last'.failed
          /\ clients[last'.id] \notin last'.wrote
          /\ \A d \in last'.failed : ~client'[d].connected]_vars

\* C8 witness: a broadcast in which one recipient's write threw and another
\* recipient of the same group was written to
C8_Witness ==
  /\ last.op = "message"
  /\ last.path = "broadcast"
  /\ last.failed # {}
  /\ last.wrote # {}
  /\ \A d \in last.wrote : client[d].apiKey = client[last.conn].apiKey

\* C9: a non-ping message from a registered sender is either given to the
\* handlers registered for its type, in registration order, and not
\* broadcast, or, when its type is missing or has no handler, broadcast
\* unchanged to the sender's group with no handler invoked; never both
C9_HandlersOrBroadcast ==
  [][(/\ last'.op = "message"
      /\ last'.msg.type # "ping"
      /\ Registered(last'.id))
       => IF /\ last'.msg.type # ""
             /\ last'.msg.type \in DOMAIN messageHandlers
             /\ Len(messageHandlers[last'.msg.type]) > 0
          THEN /\ last'.path = "handlers"
               /\ last'.invoked = messageHandlers[last'.msg.type]
               /\ last'.wrote = {}
               /\ last'.failed = {}
          ELSE /\ last'.path = "broadcast"
               /\ last'.invoked = <<>>
               /\ last'.payload = last'.msg
               /\ last'.wrote \subseteq GroupPeers(last'.id)
               /\ pendingRequests' = pendingRequests]_vars

\* C9 witness: a typed message went to two handlers in registration order
\* while another alive member of the sender's group was there to broadcast to
C9_Witness ==
  /\ last.op = "message"
  /\ last.path = "handlers"
  /\ Len(last.invoked) >= 2
  /\ last.invoked = messageHandlers[last.msg.type]
  /\ last.invoked[1] = "generic"
  /\ Registered(last.id)
  /\ GroupPeers(last.id) # {}

\* C10: when a handler throws, the handlers registered after it for the same
\* message are still invoked, and the registry, the handler table and the
\* sender's connection are left as they were
C10_ThrowingHandlerIsolated ==
  [][(/\ last'.op = "message"
      /\ last'.path = "handlers"
      /\ \E i \in 1..Len(last'.threw) : last'.threw[i])
       => /\ last'.invoked = messageHandlers[last'.msg.type]
          /\ Len(last'.threw) = Len(last'.invoked)
          /\ clients' = clients
          /\ tokenGroups' = tokenGroups
          /\ messageHandlers' = messageHandlers
          /\ ws' = ws
          /\ clients'[last'.id] = clients[last'.id]
          /\ client'[last'.conn].connected = client[last'.conn].connected]_vars

\* C10 witness: a handler threw and a handler registered after it ran to
\* completion for the same message
C10_Witness ==
  /\ last.op = "message"
  /\ last.path = "handlers"
  /\ \E i, j \in 1..Len(last.invoked) : i < j /\ last.threw[i] /\ ~last.threw[j]
  /\ Registered(last.id)

\* the step just taken is call k looking up its target Client
Originates(k) ==
  /\ last'.op \in {"sendClientRequest", "apiRoute"}
  /\ last'.k = k
  /\ last'.path # "validation"

\* the step just taken is call k calling Client.send
Sends(k) ==
  \/ Originates(k) /\ Registered(last'.id) /\ last'.path # "building"
  \/ last'.op = "apiRouteResume" /\ last'.k = k /\ last'.path # "internal-error"

\* C6: when Client.send returns false for the request a call has registered,
\* the entry under its requestId is gone when control returns, the call fails
\* with send-failed, and no timeout timer is armed for it
C6_SendFailureCleansUp ==
  [][\A k \in Calls :
       (Sends(k) /\ ~last'.ret)
       => /\ call'[k].rid \notin DOMAIN pendingRequests'
          /\ call'[k].outcome = "send-failed"
          /\ call'[k].finals = 1
          /\ ~call'[k].armed
          /\ timers' = timers
          /\ last'.wrote = {}]_vars

\* C7: a call addressed to a clientId with no registered Client fails at
\* once with unknown-client; no entry is registered, nothing is sent and no
\* timer is armed
C7_UnknownClientFailsFast ==
  [][\A k \in Calls :
       (Originates(k) /\ ~Registered(last'.id))
       => /\ call'[k].outcome = "unknown-client"
          /\ call'[k].finals = 1
          /\ call'[k].pc = "returned"
          /\ ~call'[k].armed
          /\ ~call'[k].sent
          /\ last'.wrote = {}
          /\ pendingRequests' = pendingRequests
          /\ timers' = timers
          /\ client' = client
          /\ \A j \in Calls \ {k} : call'[j] = call[j]]_vars

\* C7 witness: a call to an unregistered id has just failed with
\* unknown-client while a Client is registered and has a request outstanding
C7_Witness ==
  /\ last.op \in {"sendClientRequest", "apiRoute"}
  /\ ~Registered(last.id)
  /\ call[last.k].outcome = "unknown-client"
  /\ \E id \in Ids : Registered(id)
  /\ pendingRequests # EmptyMap
  /\ timers # {}

\* the step just taken processed a result message that matches the request
\* of call k: its requestId and the result type of its request type
ResultFor(k) ==
  /\ last'.op = "message"
  /\ last'.path = "handlers"
  /\ last'.msg.requestId = call[k].rid
  /\ last'.msg.type = resultType(call[k].rid[1])

\* call k waits: not settled, its entry in the table, its timer armed
Waiting(k) ==
  /\ call[k].outcome = "none"
  /\ call[k].rid \in DOMAIN pendingRequests
  /\ \E tm \in timers : tm.call = k

\* C3: when a matching result is processed while a request waits, its waiter
\* is finalized exactly once, with the completion, and the entry is removed;
\* the timer of a completed call that fires later changes nothing
C3_CompletionBeforeTimer ==
  [][\A k \in Calls :
       /\ (Waiting(k) /\ ResultFor(k))
            => /\ call'[k].outcome \in {"result", "remote-error"}
               /\ call'[k].finals = 1
               /\ call'[k].rid \notin DOMAIN pendingRequests'
       /\ (/\ last'.op = "timer"
           /\ last'.k = k
           /\ call[k].outcome \in {"result", "remote-error"})
            => /\ pendingRequests' = pendingRequests
               /\ call' = call]_vars

\* C4: when the timer of a waiting request fires before any matching result
\* was processed, its waiter is finalized exactly once with timed-out and the
\* entry is removed; a result for the same requestId processed afterwards
\* changes nothing
C4_TimerBeforeCompletion ==
  [][\A k \in Calls :
       /\ (/\ last'.op = "timer"
           /\ last'.k = k
           /\ call[k].outcome = "none"
           /\ call[k].rid \in DOMAIN pendingRequests)
            => /\ call'[k].outcome = "timed-out"
               /\ call'[k].finals = 1
               /\ call'[k].rid \notin DOMAIN pendingRequests'
       /\ (ResultFor(k) /\ call[k].outcome = "timed-out")
            => /\ pendingRequests' = pendingRequests
               /\ call' = call]_vars

\* C5: every call made through sendClientRequest eventually settles, and is
\* settled exactly once, whatever its timeout and however other calls, result
\* messages, disconnects and sweeps interleave
C5_EveryCallSettlesOnce ==
  /\ \A k \in Calls : (call[k].pc = "returned") ~> (call[k].outcome # "none")
  /\ [](\A k \in Calls : call[k].finals <= 1)

\* C11: a "ping" message is answered with a pong written to its sender only;
\* no registered handler is invoked for it, even one registered for "ping",
\* and it is not broadcast
C11_PingAnsweredToSenderOnly ==
  [][(last'.op = "message" /\ last'.msg.type = "ping")
       => /\ last'.path = "pong"
          /\ last'.payload = Pong
          /\ last'.invoked = <<>>
          /\ last'.wrote \subseteq {last'.conn}
          /\ (/\ isAlive(client[last'.conn], ws[last'.conn])
              /\ last'.conn \notin last'.failed)
               => last'.wrote = {last'.conn}
          /\ \A d \in Conns \ {last'.conn} : client'[d] = client[d]
          /\ pendingRequests' = pendingRequests
          /\ call' = call]_vars

\* C11 witness: a ping was answered to its sender while a handler is
\* registered for "ping" and another alive member of the group is connected
C11_Witness ==
  /\ last.op = "message"
  /\ last.msg.type = "ping"
  /\ last.wrote = {last.conn}
  /\ "ping" \in DOMAIN messageHandlers
  /\ Registered(last.id)
  /\ GroupPeers(last.id) # {}

\* the registered Client under id is alive
AliveId(id) == Registered(id) /\ isAlive(ClientOf(id), ws[clients[id]])

\* C12: after cleanupInactiveClients no Client that was not alive when it
\* started is registered, every alive Client is registered as before with
\* the same group membership, and the pending table is unchanged
C12_CleanupRemovesExactlyTheDead ==
  [][last'.op = "cleanup"
       => /\ \A id \in Ids : (Registered(id) /\ ~AliveId(id)) => clients'[id] = NoConn
          /\ \A id \in Ids : AliveId(id) =>
               /\ clients'[id] = clients[id]
               /\ \A g \in Tokens :
                    (g \in DOMAIN tokenGroups /\ id \in tokenGroups[g])
                    <=> (g \in DOMAIN tokenGroups' /\ id \in tokenGroups'[g])
          /\ \A id \in Ids : ~Registered(id) => clients'[id] = NoConn
          /\ client' = client
          /\ ws' = ws
          /\ pendingRequests' = pendingRequests
          /\ call' = call
          /\ timers' = timers]_vars

\* C12 witness: a cleanup has run with a request outstanding for the Client
\* it removed (connection open, marked disconnected), and an alive Client is
\* still registered
C12_Witness ==
  /\ last.op = "cleanup"
  /\ \E c \in Conns : /\ ws[c] = "open"
                      /\ client[c] # NoClient
                      /\ ~client[c].connected
                      /\ ~Registered(client[c].id)
                      /\ \E r \in DOMAIN pendingRequests :
                           pendingRequests[r].clientId = client[c].id
  /\ \E id \in Ids : AliveId(id)

\* call k is outstanding for a Client that is no longer registered
Orphaned(k) ==
  /\ call[k].pc = "returned"
  /\ call[k].outcome = "none"
  /\ call[k].rid \in DOMAIN pendingRequests
  /\ ~Registered(pendingRequests[call[k].rid].clientId)

\* C13: removing a Client (close, error or sweep of dead clients) while a
\* request addressed to it is outstanding changes neither the pending table
\* nor any call nor any timer, and the request is finalized later by its own
\* timeout
C13_RemovalLeavesRequestToTimeout ==
  /\ [][last'.op \in {"close", "error", "cleanup"}
          => /\ pendingRequests' = pendingRequests
             /\ call' = call
             /\ timers' = timers]_vars
  /\ \A k \in Calls : Orphaned(k) ~> (call[k].outcome = "timed-out")

\* the reason a connection or addClient step was turned away for, from what
\* it presented and the registry it met
RejectedFor(reason) ==
  /\ last'.op \in {"connection", "addClient"}
  /\ ~last'.ret
  /\ last'.path = reason

\* C14: a connection is accepted only if it presents id and token, the token
\* is the configured secret and no Client is bound to the id; the three
\* rejection reasons close the connection with three different codes
C14_AdmissionAndDistinctCodes ==
  [][/\ (last'.op = "connection" /\ last'.ret)
          => /\ last'.id # ""
             /\ client'[last'.conn].apiKey = API_KEY
             /\ ~Registered(last'.id)
     /\ (last'.op = "connection" /\ ~last'.ret)
          => /\ last'.path \in {"missing", "badkey", "duplicate"}
             /\ last'.path = "duplicate" => Registered(last'.id)
     /\ (/\ last.op = "connection"
         /\ ~last.ret
         /\ last'.op = "connection"
         /\ ~last'.ret
         /\ last.path # last'.path)
          => last.code # last'.code]_vars

\* C16: addClient rejects exactly when the id is bound to a Client that is
\* alive; otherwise, also when the registered Client is not alive and not yet
\* swept, it constructs, registers and returns a Client
C16_RejectsOnlyLiveDuplicates ==
  [][\A id \in Ids :
       (/\ last'.op \in {"connection", "addClient"}
        /\ last'.id = id
        /\ last'.path \notin {"missing", "badkey"})
       => /\ ~last'.ret <=> AliveId(id)
          /\ last'.ret => /\ clients'[id] = last'.conn
                          /\ client'[last'.conn].id = id
                          /\ client'[last'.conn].apiKey \in DOMAIN tokenGroups'
                          /\ id \in tokenGroups'[client'[last'.conn].apiKey]]_vars

\* C15: a rejected connection creates no Client, gets no listeners and no
\* keepalive timer, and leaves the registry, the group index and the pending
\* table as they were; only the socket itself is closed
C15_RejectionLeavesNoTrace ==
  /\ [](\A c \in Conns :
          client[c] = NoClient
            => /\ ~routed[c]
               /\ ~pingTimer[c]
               /\ ~ENABLED WsMessage(c, [type |-> "ping"], {})
               /\ ~ENABLED WsClose(c))
  /\ [][(last'.op \in {"connection", "addClient"} /\ ~last'.ret)
          => /\ client' = client
             /\ routed' = routed
             /\ pingTimer' = pingTimer
             /\ clients' = clients
             /\ tokenGroups' = tokenGroups
             /\ messageHandlers' = messageHandlers
             /\ pendingRequests' = pendingRequests
             /\ call' = call
             /\ timers' = timers
             /\ ws' = [ws EXCEPT ![last'.conn] = "closing"]]_vars

C15_Witness ==
  /\ last.op = "connection"
  /\ ~last.ret
  /\ last.path = "duplicate"
  /\ Registered(last.id)
  /\ clients[last.id] # last.conn
  /\ client[last.conn] = NoClient
  /\ ws[last.conn] = "closing"

\* the Client object a close or error event of connection c was about
EventClient(c) == IF client'[c] = NoClient THEN client[c] ELSE client'[c]

\* C17: after the close or the error event of a connection its Client is not
\* alive and a send on it returns false, no registry entry refers to it, its
\* keepalive timer is stopped, and the removal took effect once: at most one
\* registry entry changed although two listeners may have reacted
C17_EventDisconnectsAndRemovesOnce ==
  [][last'.op \in {"close", "error"}
       => /\ ~isAlive(EventClient(last'.conn), ws'[last'.conn])
          /\ ~send(EventClient(last'.conn), ws'[last'.conn], FALSE).ret
          /\ ~send(EventClient(last'.conn), ws'[last'.conn], FALSE).wrote
          /\ clients'[last'.id] = NoConn
          /\ \A g \in DOMAIN tokenGroups' : last'.id \notin tokenGroups'[g]
          /\ ~pingTimer'[last'.conn]
          /\ \A j \in Ids \ {last'.id} :
               /\ clients'[j] = clients[j]
               /\ \A g \in Tokens :
                    (g \in DOMAIN tokenGroups /\ j \in tokenGroups[g])
                      <=> (g \in DOMAIN tokenGroups' /\ j \in tokenGroups'[g])]_vars

C17_Witness ==
  /\ last.op = "close"
  /\ last.path = "both listeners"
  /\ ~Registered(last.id)
  /\ ws[last.conn] = "closed"
  /\ \E id \in Ids : AliveId(id)

\* the connection a sendClientRequest or ping step called Client.send on
SendTarget ==
  IF last'.op = "message" THEN last'.conn
  ELSE IF Registered(last'.id) THEN clients[last'.id] ELSE NoConn

\* C18: Client.send returns false without writing when the Client is not
\* alive; a write that fails returns false and marks the Client disconnected,
\* so the next send returns false without a write; send returns true only
\* when the write was issued on an open connection of a connected Client
C18_SendReportsAndMarks ==
  [][(/\ \/ last'.op = "sendClientRequest"
         \/ last'.op = "message" /\ last'.msg.type = "ping"
      /\ SendTarget # NoConn)
       => LET d == SendTarget
              sent == IF last'.op = "message" THEN d \in last'.wrote ELSE last'.ret
              wasAlive == ws[d] = "open" /\ client[d].connected
          IN /\ sent => wasAlive /\ last'.wrote = {d} /\ client'[d] = client[d]
             /\ ~wasAlive => ~sent /\ last'.wrote = {} /\ client'[d] = client[d]
             /\ (wasAlive /\ ~sent)
                  => /\ last'.wrote = {}
                     /\ client'[d] = [client[d] EXCEPT !.connected = FALSE]
                     /\ ~send(client'[d], ws'[d], FALSE).ret
                     /\ ~send(client'[d], ws'[d], FALSE).wrote
                     /\ send(client'[d], ws'[d], FALSE).cl = client'[d]]_vars

C18_Witness ==
  /\ last.op = "sendClientRequest"
  /\ ~last.ret
  /\ last.wrote = {}
  /\ Registered(last.id)
  /\ ws[clients[last.id]] = "open"
  /\ ~ClientOf(last.id).connected

\* the values the clock takes
ClockValues == {j * TickMs : j \in 0..MaxClock}

C20_RemoveClientIdempotent ==
  [][last'.op = "removeClient"
       => /\ UNCHANGED <<ws, client, routed, pingTimer, messageHandlers, inbox,
                         pendingRequests, call, timers>>
          /\ ~Registered(last'.id)
               => clients' = clients /\ tokenGroups' = tokenGroups
          /\ Registered(last'.id)
               => /\ clients' = [clients EXCEPT ![last'.id] = NoConn]
                  /\ \A g \in Tokens, j \in Ids :
                       (g \in DOMAIN tokenGroups' /\ j \in tokenGroups'[g])
                         <=> /\ g \in DOMAIN tokenGroups
                             /\ j \in tokenGroups[g]
                             /\ ~(j = last'.id /\ g = ClientOf(last'.id).apiKey)
          /\ removeClient(clients', tokenGroups', client', last'.id)
               = [clients |-> clients', tokenGroups |-> tokenGroups']]_vars

C20_Witness ==
  /\ last.op = "removeClient"
  /\ last.ret
  /\ ~Registered(last.id)
  /\ \E id \in Ids, c \in Conns :
       /\ Registered(id)
       /\ client[c] # NoClient
       /\ client[c].id = last.id
       /\ ws[c] = "open"
       /\ ClientOf(id).apiKey = client[c].apiKey
       /\ id \in tokenGroups[client[c].apiKey]

\* C21: getConnectedClients(groupKey) returns exactly the ids of the group
\* whose Client is registered with an open socket and not marked
\* disconnected; an unknown group gives the empty list; no state changes
C21_ConnectedClientsAreTheLiveMembers ==
  [][last'.op = "getConnectedClients"
       => /\ last'.ids
               = {id \in Ids : /\ last'.key \in DOMAIN tokenGroups
                               /\ id \in tokenGroups[last'.key]
                               /\ Registered(id)
                               /\ ws[clients[id]] = "open"
                               /\ ClientOf(id).connected}
          /\ last'.key \notin DOMAIN tokenGroups => last'.ids = {}
          /\ UNCHANGED <<ws, client, routed, pingTimer, clients, tokenGroups,
                         messageHandlers, inbox, pendingRequests, call, timers, now>>]_vars

C21_Witness ==
  /\ last.op = "getConnectedClients"
  /\ last.ids # {}
  /\ last.key \in DOMAIN tokenGroups
  /\ \E id \in tokenGroups[last.key] \ last.ids : Registered(id) /\ ~AliveId(id)

\* C22: in every reachable state each registered id is in exactly one group
\* and no group key maps to the empty set
C22_OneGroupPerIdNoEmptyGroup ==
  /\ \A id \in Ids :
       Registered(id)
         => Cardinality({g \in DOMAIN tokenGroups : id \in tokenGroups[g]}) = 1
  /\ \A g \in DOMAIN tokenGroups : tokenGroups[g] # {}

C22_Witness ==
  /\ last.op = "error"
  /\ ~Registered(last.id)
  /\ client[last.conn].apiKey \notin DOMAIN tokenGroups
  /\ \E id \in Ids : Registered(id) /\ ClientOf(id).apiKey \in DOMAIN tokenGroups

\* the step just taken is call k putting an entry into the pending table
Registers(k) ==
  /\ Originates(k)
  /\ last'.path \notin {"unknown-client"}
  /\ call'[k].rid # NoRid
  /\ \/ last'.op = "apiRoute"
     \/ call'[k].rid[1] \in PENDING_REQUEST_TYPES

\* C23: request ids of concurrently outstanding requests are distinct: a
\* newly registered entry never takes the key of an entry that is still in
\* the table, and two calls that wait never share a request id
C23_OutstandingIdsDistinct ==
  /\ [](\A j, k \in Calls :
          (j # k /\ Waiting(j) /\ Waiting(k)) => call[j].rid # call[k].rid)
  /\ [][\A k \in Calls :
          Registers(k) => call'[k].rid \notin DOMAIN pendingRequests]_vars

\* C24: an entry created for request type T is completed only by a message
\* of type "T-result": a result message of another type that carries its
\* request id leaves the entry in the table and finalizes nothing
C24_OnlyMatchingTypeCompletes ==
  [][(/\ last'.op = "message"
      /\ last'.msg.requestId \in DOMAIN pendingRequests
      /\ last'.msg.type # resultType(pendingRequests[last'.msg.requestId].type))
       => /\ pendingRequests' = pendingRequests
          /\ call' = call]_vars

\* C25: a result message whose request id is missing, unknown, or belongs to
\* a request that was completed or has expired is dropped: no waiter is
\* finalized, the pending table and the registry stay as they were, and
\* nothing is written to any client
C25_StrayResultDropped ==
  [][(/\ last'.op = "message"
      /\ last'.msg.type \in {"rolls-result", "download-file-result"}
      /\ last'.msg.requestId \notin DOMAIN pendingRequests)
       => /\ call' = call
          /\ pendingRequests' = pendingRequests
          /\ clients' = clients
          /\ tokenGroups' = tokenGroups
          /\ timers' = timers
          /\ last'.wrote = {}
          /\ \A d \in Conns : client'[d].connected = client[d].connected]_vars

C25_Witness ==
  /\ last.op = "message"
  /\ last.msg.requestId # NoRid
  /\ last.msg.requestId \notin DOMAIN pendingRequests
  /\ \E k \in Calls : call[k].rid = last.msg.requestId /\ call[k].outcome = "timed-out"
  /\ \A k \in Calls : call[k].rid = last.msg.requestId => call[k].outcome = "timed-out"
  /\ GroupPeers(last.id) # {}
  /\ pendingRequests # EmptyMap

\* C26: each run of the periodic sweep removes every entry older than the
\* ceiling of 30 s, three times the default timeout, and no younger entry;
\* with a run every 10 s no entry is in the table longer than the ceiling
\* plus one interval, with or without a timeout timer armed for it
C26_SweepBoundsEntryAge ==
  /\ [](SWEEP_CEILING = 3 * DEFAULT_TIMEOUT)
  /\ [](\A rid \in DOMAIN pendingRequests :
          now - pendingRequests[rid].timestamp <= SWEEP_CEILING + SWEEP_INTERVAL)
  /\ [][last'.op = "interval"
          => /\ \A rid \in DOMAIN pendingRequests :
                  rid \in DOMAIN pendingRequests'
                    <=> now' - pendingRequests[rid].timestamp <= SWEEP_CEILING
             /\ \A rid \in DOMAIN pendingRequests' :
                  /\ rid \in DOMAIN pendingRequests
                  /\ pendingRequests'[rid] = pendingRequests[rid]]_vars

C26_Witness ==
  /\ last.op = "interval"
  /\ now = SWEEP_CEILING + SWEEP_INTERVAL
  /\ \E rid \in DOMAIN pendingRequests :
       now - pendingRequests[rid].timestamp = SWEEP_CEILING
  /\ \E k \in Calls :
       /\ call[k].rid # NoRid
       /\ call[k].rid[2] = 0
       /\ call[k].rid \notin DOMAIN pendingRequests
       /\ call[k].outcome = "internal-error"
       /\ \A j \in Calls : call[j].rid = call[k].rid => ~call[j].armed

\* C27: for every call, the entry is registered before the request message
\* is written and the timer is armed only after a successful send: when the
\* message is written an entry for its request id is in the table and a timer
\* for it is armed in the same step, and a failed send arms no timer
C27_RegisterThenSendThenArm ==
  [][\A k \in Calls :
       Sends(k)
         => /\ last'.ret
                 => /\ call'[k].rid \in DOMAIN pendingRequests'
                    /\ \E tm \in timers' \ timers :
                         tm.call = k /\ tm.rid = call'[k].rid
            /\ ~last'.ret => timers' = timers]_vars

\* the handlers that complete a pending entry
CompletionHandlers == {"generic", "download"}
CompletionsIn(hs) == Len(SelectSeq(hs, LAMBDA h : h \in CompletionHandlers))

C30_BadFrameDropped ==
  /\ [](last.op = "badframe"
          => /\ ws[last.conn] = "open"
             /\ inbox[last.conn].q # <<>> => ENABLED WsDeliver(last.conn, {}))
  /\ [][last'.op = "badframe"
          => /\ last'.invoked = <<>>
             /\ last'.wrote = {}
             /\ UNCHANGED <<ws, client, routed, pingTimer, clients, tokenGroups,
                            messageHandlers, inbox, pendingRequests, call, timers, now>>]_vars

C30_Witness ==
  /\ last.op = "badframe"
  /\ AliveId(last.id)
  /\ clients[last.id] = last.conn
  /\ inbox[last.conn].q # <<>>
  /\ GroupPeers(last.id) # {}

Completes(r) ==
  /\ r \in DOMAIN pendingRequests
  /\ last'.op = "message"
  /\ last'.path = "handlers"
  /\ last'.msg.requestId = r
  /\ last'.msg.type = resultType(pendingRequests[r].type)

\* C32: when a matching result completes an entry, exactly one finalization
\* happens, on the waiter of that entry and in the style of its variant: a
\* promise-bound entry has its failure continuation invoked if the result
\* carries an error and its success continuation otherwise, a sink-bound
\* entry has an error response written if the result carries an error and a
\* success response otherwise; no other waiter is touched
C32_CompletionFollowsVariantAndError ==
  [][\A r \in KnownRids :
       Completes(r) =>
         LET p == pendingRequests[r]
             k == p.call
         IN /\ p.sink <=> call[k].shape = "sink"
            /\ call'[k].finals = call[k].finals + 1
            /\ call'[k].outcome \in {call[k].outcome,
                                     IF last'.msg.error THEN "remote-error" ELSE "result"}
            /\ call[k].outcome = "none" => call'[k].outcome # "none"
            /\ \A j \in Calls \ {k} : call'[j] = call[j]]_vars

\* C33: a keepalive ping is written only by the timer of an accepted
\* connection and only while that connection is open; the timer is armed
\* only when a connection is accepted, and the close and the error event
\* cancel it, so after either event no timer remains for the connection
\* and no ping is written to it
C33_KeepaliveOnlyWhileOpen ==
  /\ [](\A c \in Conns : pingTimer[c] => (routed[c] /\ ws[c] \in {"open", "closing"}))
  /\ [][/\ last'.op = "keepalive"
            => /\ pingTimer[last'.conn]
               /\ last'.wrote = (IF ws[last'.conn] = "open" THEN {last'.conn} ELSE {})
        /\ last'.payload.type = "keepalive" => last'.op = "keepalive"
        /\ last'.op \in {"close", "error"} => ~pingTimer'[last'.conn]
        /\ \A c \in Conns :
             (pingTimer'[c] /\ ~pingTimer[c])
               => (last'.op = "connection" /\ last'.conn = c /\ last'.ret)]_vars

\* C33 witness: the timer of a connection whose close handshake has begun
\* has just run without writing a ping, after an earlier connection lost its
\* timer to an error event
C33_Witness ==
  /\ last.op = "keepalive"
  /\ ws[last.conn] = "closing"
  /\ last.wrote = {}
  /\ \E c \in Conns : /\ c # last.conn
                      /\ routed[c]
                      /\ ws[c] = "closing"
                      /\ ~pingTimer[c]

\* C34: every entry that leaves the pending table has had its waiter
\* finalized exactly once (by the matching result, by the timeout, by the
\* send-failed path or by the periodic sweep): in the step that deletes an
\* entry its caller has an outcome and has been finalized once
C34_DeletedEntryWasFinalized ==
  [][\A r \in DOMAIN pendingRequests :
       r \notin DOMAIN pendingRequests'
         => LET k == pendingRequests[r].call
            IN /\ call'[k].outcome # "none"
               /\ call'[k].finals = 1]_vars

\* C35: a pending entry addressed to client c is completed only by a result
\* message that arrived from client c: a message that carries the request
\* id of an entry addressed to another client leaves the entry in the table
\* and finalizes no waiter
C35_OnlyAddresseeCompletes ==
  [][(/\ last'.op = "message"
      /\ last'.msg.requestId \in DOMAIN pendingRequests
      /\ pendingRequests[last'.msg.requestId].clientId # last'.id)
       => /\ pendingRequests' = pendingRequests
          /\ call' = call]_vars

\* C36: every inbound message is attributed to the Client bound to the
\* connection it arrived on.  While that Client is registered, a broadcast
\* is sent on its behalf (never back to its own connection) and no other
\* Client object changes unless a write to it failed; a message from a
\* connection whose Client is no longer registered invokes no handler,
\* causes no broadcast and touches no other Client, also when another
\* Client has registered under the same id since
C36_MessageAttributedToItsConnection ==
  [][last'.op = "message"
       => LET c == last'.conn
          IN IF clients[last'.id] = c
             THEN /\ last'.path = "broadcast" => c \notin last'.wrote
                  /\ \A d \in Conns \ {c} :
                       client'[d] # client[d] => d \in last'.failed
             ELSE /\ last'.path \in {"none", "pong"}
                  /\ last'.invoked = <<>>
                  /\ last'.wrote \subseteq {c}
                  /\ \A d \in Conns \ {c} : client'[d] = client[d]
                  /\ pendingRequests' = pendingRequests
                  /\ call' = call]_vars

\* C37: a close or error event of a connection deregisters only the Client
\* created for that connection: a Client registered under the same id by
\* another connection stays registered, with its group membership
C37_EventRemovesOnlyOwnClient ==
  [][last'.op \in {"close", "error"}
       => \A id \in Ids :
            (Registered(id) /\ clients[id] # last'.conn)
              => /\ clients'[id] = clients[id]
                 /\ \A g \in DOMAIN tokenGroups :
                      id \in tokenGroups[g]
                        => (g \in DOMAIN tokenGroups' /\ id \in tokenGroups'[g])]_vars

\* C38: Client liveness is monotone: a Client that is not alive (after a
\* close, a failed write, disconnect() or markDisconnected(), or once its
\* socket has left the open state) is not alive after any later step, and
\* from then on send on it returns false and writes nothing
C38_LivenessMonotone ==
  [][\A c \in Conns :
       (ws[c] # "idle" /\ ~isAlive(client[c], ws[c]))
         => /\ ~isAlive(client'[c], ws'[c])
            /\ last'.op # "keepalive" => c \notin last'.wrote
            /\ (last'.op = "sendClientRequest" /\ last'.conn = c) => ~last'.ret]_vars

\* C38 witness: a Client marked disconnected while its socket stayed open
\* has just had a pong recorded at a later clock value, and is still not
\* alive
C38_Witness ==
  /\ last.op = "pong"
  /\ now > 0
  /\ ws[last.conn] = "open"
  /\ client[last.conn].lastSeen = now
  /\ ~client[last.conn].connected

\* call k is a request handled by a createApiRoute handler
Routed(k) == call[k].pc # "idle" /\ call[k].shape = "sink"

\* C39: every request handled by a createApiRoute handler receives exactly
\* one response: it is never answered twice, it is answered eventually, and
\* once the response has been written no pending entry of the request
\* remains in the table, also when buildPayload is slow or throws
C39_RouteRespondsOnceAndCleansUp ==
  /\ [](\A k \in Calls :
          Routed(k) =>
            /\ call[k].finals <= 1
            /\ call[k].outcome # "none"
                 => \A r \in DOMAIN pendingRequests : pendingRequests[r].call # k)
  /\ \A k \in Calls : Routed(k) ~> (call[k].outcome # "none")

\* C40: for a request type that is not in PENDING_REQUEST_TYPES,
\* sendClientRequest to a registered client adds no entry to the pending
\* table and arms no timer; it is settled when it returns, exactly once:
\* resolved with 'success' if and only if Client.send returned true, and
\* rejected with the send-failed error otherwise
C40_NonPendingTypeSettlesAtOnce ==
  [][\A k \in Calls :
       (/\ last'.op = "sendClientRequest"
        /\ last'.k = k
        /\ call'[k].rid # NoRid
        /\ call'[k].rid[1] \notin PENDING_REQUEST_TYPES)
         => /\ pendingRequests' = pendingRequests
            /\ timers' = timers
            /\ ~call'[k].armed
            /\ call'[k].finals = 1
            /\ call'[k].outcome = (IF last'.ret THEN "success" ELSE "send-failed")
            /\ last'.ret <=> call'[k].sent
            /\ last'.ret <=> last'.wrote = {last'.conn}
            /\ \A j \in Calls \ {k} : call'[j] = call[j]]_vars

\* C40 witness: one request of a type outside PENDING_REQUEST_TYPES was
\* resolved with 'success' and another was rejected as send-failed
C40_Witness ==
  /\ last.op = "sendClientRequest"
  /\ \E k, j \in Calls :
       /\ call[k].rid[1] = "notify" /\ call[k].outcome = "success"
       /\ call[j].rid[1] = "notify" /\ call[j].outcome = "send-failed"

====
